---- MODULE Spec2Model ----
(***************************************************************************)
(* A model of the Ripple endpoint broker (core/main/src/broker):           *)
(* id allocation and the request registry (endpoint_broker.rs), the        *)
(* response forwarder (endpoint_broker.rs), the plugin-aware Thunder       *)
(* driver with its subscription map, plugin gating, cleanup and reconnect  *)
(* hand-off (thunder_broker.rs), and the composite-request table with its  *)
(* purge timer (thunder_broker.rs).                                        *)
(*                                                                         *)
(* The module holds several specifications over one set of variables; each *)
(* drives one part of the broker and leaves the other variables alone:     *)
(*   SpecId      concurrent callers of get_next_id / update_request        *)
(*   SpecFwd     the request registry and the response forwarder           *)
(*   Spec        the Thunder driver task and its plugin gating             *)
(*   SpecSub     the Thunder driver's subscriptions, cleanup and reconnect *)
(*   SpecComp    the composite-request table and its purge timer           *)
(***************************************************************************)
EXTENDS Integers, Sequences, FiniteSets, TLC

(***************************************************************************)
(* Bounds of the model.                                                    *)
(***************************************************************************)
\* concurrent callers of get_next_id in SpecId
NumCallers == 3
\* ids a run of SpecId allocates
MaxIds == 4
\* requests a run of Spec or SpecSub hands to handle_brokerage
MaxReq == 3
\* controller frames (status replies, statechange events) a run reads
MaxReports == 3
\* cleanup_for_app calls in a run of SpecSub
MaxCleanups == 1
\* requests a run of SpecShapes hands to handle_brokerage
MaxShapeReq == 2
\* requests a run of SpecFull hands to handle_brokerage: one more than the
\* driver's inbound channel holds
MaxFullReq == 11
\* requests a run of SpecComp hands to handle_brokerage
MaxCompReq == 2
\* outputs the drivers push in a run of SpecFwd
MaxOutputs == 3
\* the largest number a method token of the model spells
MaxTok == 9
\* seconds the clock of SpecComp runs
MaxTime == 12

(***************************************************************************)
(* Program constants.                                                      *)
(***************************************************************************)
\* static ATOMIC_ID: AtomicU64 = AtomicU64::new(0)
ATOMIC_ID_INIT == 0
\* ThunderBroker::start: mpsc::channel(10), the driver's inbound channel
ChanCap == 10
\* ThunderBroker::start: mpsc::channel(2), the driver's cleanup channel
CleanCap == 2
\* EndpointBrokerState::new: mpsc::channel(2), the reconnect channel
ReconnectCap == 2
\* const COMPOSITE_REQUEST_TIME_OUT: u64 = 8 (seconds)
COMPOSITE_REQUEST_TIME_OUT == 8
\* time::interval(Duration::from_millis(3000)), in seconds
PurgeInterval == 3

VARIABLES
    \* ---- id allocation (SpecId) ----
    ATOMIC_ID,      \* the process-wide id counter
    id_pc,          \* caller -> "idle" | "added" | "loaded"
    id_local,       \* caller -> the id its load returned (0 before)
    returned,       \* history: the ids get_next_id returned, in completion order
    \* ---- request registry ----
    request_map,    \* id -> BrokerRequest (a function on the registered ids)
    \* ---- dispatcher ----
    spawned,        \* requests whose spawned send task has not run yet
    \* ---- Thunder driver ----
    chan,           \* broker_request_rx: the driver's inbound channel
    cleanq,         \* c_tr: the driver's cleanup channel
    sub_map,        \* subscription_map: session -> list of BrokerRequest
    status,         \* StatusManager: callsign -> plugin state (absent: unknown)
    pending,        \* StatusManager: callsign -> pending BrokerRequests
    wire,           \* the frames written to the current socket, in order
    emitted,        \* the BrokerOutputs the driver and the dispatcher pushed
    answered,       \* ids of the frames whose backend response was read
    driver,         \* "running" | "blocked" | "panicked" | "exited"
    connect_req,    \* the BrokerConnectRequest the driver was started with
    reconnect_q,    \* the reconnect channel
    supervisor,     \* reconnect_thread: "running" | "stopped"
    stop_server,    \* FireboltGatewayCommand::StopServer was sent
    sockets,        \* sockets established for the endpoint so far
    ws_driver,      \* the plain WebSocket driver under key "ws": "running" | "exited"
    ws_sockets,     \* drivers built under key "ws" so far
    \* ---- composite requests ----
    composite_request_list,  \* id -> [time_stamp, rpc_request]
    purge_started,  \* composite_request_purge_started
    sweepers,       \* purge timer tasks: task id -> [pc, next]
    n_sweepers,     \* purge timer tasks spawned so far
    now,            \* the clock, in seconds
    \* ---- history (not program state) ----
    n_reports,      \* controller frames read so far
    n_cleanups,     \* cleanup_for_app calls so far
    gated,          \* callsign -> call_ids dequeued while the callsign was absent
    sent_log,       \* call_ids of the requests whose frames were written, in order
    drained,        \* [session, call_id] of the entries a cleanup drained
    pre_drop,       \* the subscription map at the moment of the disconnect
    \* ---- response forwarder (SpecFwd) ----
    delivered,      \* the messages sent to sessions, each with the id looked up
    lookups,        \* history: the get_request calls, [id, found, subscription, jq]
    n_outputs,      \* outputs the backend side has pushed so far
    forwarder,      \* the forwarder task: "running" | "panicked"
    callback_sent,  \* the messages sent to inline (workflow) callbacks
    tele_sent,      \* the messages sent to telemetry listeners
    \* ---- endpoints and routing (SpecRoute) ----
    endpoint_map,   \* the endpoint keys that have a sender registered
    http_chan,      \* the inbound channel of the HTTP driver under key "http"
    http_driver,    \* "running" | "panicked"
    handled_log,    \* history: [method, id, handled] of each handle_brokerage call
    routed,         \* history: [id, to] of each request a driver channel accepted
    pushed,         \* history: the outputs the dispatcher pushed to the forwarder
    send_failed,    \* history: call_ids of the requests whose send returned Err
    http_json_rpc,  \* endpoint.jsonrpc of the endpoint under key "http"
    http_replies,   \* history: [id, success, body] of the replies the HTTP driver read
    extension_request_map, \* the ids update_request stored an extension message under
    subscribe_calls, \* history: the requests subscribe was called with, in order
    \* ---- sessions ----
    closed,         \* the sessions that are gone from the session state
    cleaned,        \* history: the sessions whose cleanup the driver handled, in order
    \* ---- pure functions called on their own ----
    arg,            \* the input the function is called with
    ret             \* None, or Some(the value the call returned)

idVars == <<ATOMIC_ID, id_pc, id_local, returned>>
compVars == <<composite_request_list, purge_started, sweepers, n_sweepers, now>>
reconVars == <<connect_req, reconnect_q, supervisor, stop_server, sockets, pre_drop,
               ws_driver, ws_sockets>>
gateHist == <<gated, sent_log>>
fwdVars == <<delivered, lookups, n_outputs, forwarder, callback_sent, tele_sent>>
pureVars == <<arg, ret>>
sessVars == <<closed, cleaned>>
routeVars == <<endpoint_map, http_chan, http_driver, handled_log, routed, pushed,
               send_failed, http_json_rpc, http_replies, extension_request_map>>
vars == <<ATOMIC_ID, id_pc, id_local, returned, request_map, spawned, chan,
          cleanq, sub_map, status, pending, wire, emitted, answered, driver,
          connect_req, reconnect_q, supervisor, stop_server, sockets,
          ws_driver, ws_sockets,
          composite_request_list, purge_started, sweepers, n_sweepers, now,
          n_reports, n_cleanups, gated, sent_log, drained, pre_drop,
          delivered, lookups, n_outputs, forwarder, callback_sent, tele_sent,
          endpoint_map, http_chan, http_driver,
          handled_log, routed, pushed, send_failed, http_json_rpc, http_replies,
          extension_request_map, subscribe_calls, closed, cleaned, arg, ret>>

(***************************************************************************)
(* Helpers on maps.                                                        *)
(***************************************************************************)
\* HashMap::insert
MapInsert(m, k, v) == [x \in (DOMAIN m) \cup {k} |-> IF x = k THEN v ELSE m[x]]

\* a remove that leaves the entry in the map
MapRemoveKeep(m, k) == m

\* HashMap::remove
MapRemove(m, k) == [x \in (DOMAIN m) \ {k} |-> m[x]]

EmptyMap == [x \in {} |-> 0]

(***************************************************************************)
(* Option<T> is modelled as a sequence: <<>> is None, <<v>> is Some(v).    *)
(***************************************************************************)
None == <<>>
Some(v) == <<v>>
IsSome(o) == o # <<>>

(***************************************************************************)
(* Requests.  An RpcRequest is modelled by the fields the broker reads:    *)
(* the session, the client's request_id and call_id (ctx), the method, the *)
(* subscription kind and the shape of params_json.  A BrokerRequest adds   *)
(* subscription_processed; its rule is looked up from the method.          *)
(***************************************************************************)
Sessions == {"s1", "s2"}

\* BrokerRequest::new / the struct literal in update_request:
\* subscription_processed starts as None
BrokerRequest(session, request_id, call_id, method, kind, params) ==
    [session |-> session, request_id |-> request_id, call_id |-> call_id,
     method |-> method, kind |-> kind, params |-> params,
     subscription_processed |-> FALSE,
     workflow_callback |-> FALSE, telemetry_response_listeners |-> {}]

\* a request that carries an inline callback (workflow_callback is Some)
WithCallback(r) == [r EXCEPT !.workflow_callback = TRUE]
\* a request with telemetry listeners registered on it
WithListeners(r, listeners) == [r EXCEPT !.telemetry_response_listeners = listeners]

\* RpcRequest::is_subscription, is_listening, is_unlisten (ripple_sdk):
\* is_subscription = is_listen || is_unlisten
IsSubscription(r) == r.kind \in {"listen", "unlisten"}
IsListening(r) == r.kind = "listen"
IsUnlisten(r) == r.kind = "unlisten"

\* RpcRequest::get_unsubscribe (ripple_sdk): the same context as an unlisten
GetUnsubscribe(r) == [r EXCEPT !.kind = "unlisten"]

\* str::eq_ignore_ascii_case on the methods of the model
Lower(m) ==
    CASE m = "DEV.ONFOO" -> "dev.onfoo"
      [] m = "dev.onFoo" -> "dev.onfoo"
      [] m = "dev.onBar" -> "dev.onbar"
      [] m = "dev.onDecorated" -> "dev.ondecorated"
      [] m = "dev.onHandled" -> "dev.onhandled"
      [] m = "dev.id" -> "dev.id"
      [] m = "dev.name" -> "dev.name"
      [] OTHER -> m
EqIgnoreAsciiCase(a, b) == Lower(a) = Lower(b)

(***************************************************************************)
(* The rule table (read once at startup).  An alias is the sequence of its *)
(* dot-separated segments.                                                 *)
(***************************************************************************)
Rule(alias, event_handler, event_decorator_method) ==
    [alias |-> alias, event_handler |-> event_handler,
     event_decorator_method |-> event_decorator_method, endpoint |-> None,
     response_filter |-> None, event_filter |-> None, filter |-> None]

\* a rule with transform.response, transform.event and filter (the match
\* filter) as given
RuleFiltered(alias, response_filter, event_filter, filter) ==
    [Rule(alias, None, None) EXCEPT !.response_filter = response_filter,
                                    !.event_filter = event_filter,
                                    !.filter = filter]

\* a rule that names the endpoint key it is brokered to
RuleAt(alias, endpoint) == [Rule(alias, None, None) EXCEPT !.endpoint = Some(endpoint)]

RuleOf(method) ==
    CASE Lower(method) = "dev.onfoo" -> Rule(<<"Foo", "1", "changed">>, None, None)
      [] Lower(method) = "dev.onbar" -> Rule(<<"Foo", "1", "moved">>, None, None)
      [] Lower(method) = "dev.ondecorated" ->
            Rule(<<"Foo", "1", "decorated">>, None, Some("decorator"))
      [] Lower(method) = "dev.onhandled" ->
            Rule(<<"Foo", "1", "handled">>, Some("dev.handler"), None)
      [] Lower(method) = "dev.id" -> Rule(<<"Foo", "1", "id">>, None, None)
      [] method = "http.get" -> RuleAt(<<"/get">>, "http")
      [] method = "http.onEvt" -> RuleAt(<<"/evt">>, "http")
      [] method = "http.bad" -> RuleAt(<<"bad uri">>, "http")
      [] method = "static.m" -> Rule(<<"static">>, None, None)
      [] method = "static.e" -> RuleAt(<<"static">>, "http")
      [] method = "prov.m" -> Rule(<<"Provided">>, None, None)
      [] method = "flt.get" ->
            RuleFiltered(<<"Foo", "1", "get">>, Some("response filter"), None, None)
      [] method = "flt.onMatch" ->
            RuleFiltered(<<"Foo", "1", "matched">>, None, None, Some("match filter"))
      [] method = "flt.onXform" ->
            RuleFiltered(<<"Foo", "1", "transformed">>, None, Some("event filter"), None)
      [] OTHER -> Rule(<<"Bar", "1", "name">>, None, None)

\* RuleEngine::get_rule: the rule of the method, None for a method the table
\* does not hold
GetRule(method) == IF method = "unknown.m" THEN None ELSE Some(RuleOf(method))

\* rule.alias.eq_ignore_ascii_case("provided")
IsProvided(alias) == alias \in {<<"provided">>, <<"Provided">>, <<"PROVIDED">>}
\* rule.alias == "static"
IsStatic(alias) == alias = <<"static">>

\* ThunderBroker::get_callsign_and_method_from_alias: split on '.', pop the
\* last segment as the method, join the rest as the callsign
GetCallsignAndMethodFromAlias(alias) ==
    [callsign |-> SubSeq(alias, 1, Len(alias) - 1),
     method |-> IF Len(alias) > 0 THEN Some(alias[Len(alias)]) ELSE None]

Callsigns == {<<"Foo", "1">>, <<"Bar", "1">>}

(***************************************************************************)
(* The shapes of params_json the model distinguishes.                      *)
(***************************************************************************)
\* serde_json::from_str::<Vec<Value>>(params_json) succeeds
\* ("blank" is the empty string, "text" a JSON value that is no array)
ParamsIsArray(p) ==
    p \in {"empty", "one", "objs", "composite:A", "composite:B", "scalars"}
\* the number of elements of the array
ParamsLen(p) ==
    CASE p = "empty" -> 0
      [] p = "one" -> 1
      [] OTHER -> 2
\* every element of the array is a JSON object
ParamsAllObjects(p) == p \in {"empty", "one", "objs", "composite:A", "composite:B"}
\* some element of the array has a top-level "response" key
ParamsHasResponse(p) == p \in {"composite:A", "composite:B"}
\* the value of that key
ParamsResponse(p) == IF p = "composite:A" THEN "A" ELSE "B"

(***************************************************************************)
(* Frames written to the socket.                                           *)
(***************************************************************************)
Frame(t, id, callsign, event) ==
    [t |-> t, id |-> id, callsign |-> callsign, event |-> event]
\* a plain call: {"jsonrpc","id","method": alias} with "params" unless the body is null
CallFrame(id, alias, body) ==
    Frame(IF body = "null" THEN "call" ELSE "call_with_params", id,
          SubSeq(alias, 1, Len(alias) - 1), alias[Len(alias)])

\* StatusManager::generate_state_change_subscribe_request
StateChangeSubscribeFrame == Frame("statechange", 0, <<"Controller", "1">>, "statechange")
\* StatusManager::generate_plugin_status_request
PluginStatusFrame(callsign) == Frame("status", 0, callsign, "")
\* StatusManager::generate_plugin_activation_request
PluginActivationFrame(callsign) == Frame("activate", 0, callsign, "")
\* the json! literals of prepare_request
RegisterFrame(id, callsign, event) == Frame("register", id, callsign, event)
UnregisterFrame(id, callsign, event) == Frame("unregister", id, callsign, event)

(***************************************************************************)
(* BrokerOutput: the JSON-RPC response a driver pushes to the forwarder.   *)
(***************************************************************************)
BrokerOutput(id, result, error, method, params) ==
    [id |-> id, result |-> result, error |-> error, method |-> method,
     params |-> params]

\* send_error answering under another id than the request's call_id
SendErrorOtherId(request, e) ==
    BrokerOutput(Some(request.call_id + MaxTok), None, Some(e), None, None)

\* BrokerCallback::send_error: error set, result absent, id = the call_id
SendError(request, e) ==
    BrokerOutput(Some(request.call_id), None, Some(e), None, None)

\* From<BrokerRequest> for JsonRpcApiResponse: the local unlisten acknowledgement
LocalAck(request) ==
    BrokerOutput(Some(request.call_id), None, None, None, None)

(***************************************************************************)
(* The subscription map of the Thunder driver.                             *)
(***************************************************************************)
\* Iterator::position(|x| x.rpc.ctx.method.eq_ignore_ascii_case(method)):
\* the index of the first entry with that method, 0 when there is none
Position(v, method) ==
    IF \E i \in DOMAIN v : EqIgnoreAsciiCase(v[i].method, method)
    THEN CHOOSE i \in DOMAIN v :
            /\ EqIgnoreAsciiCase(v[i].method, method)
            /\ \A j \in DOMAIN v : EqIgnoreAsciiCase(v[j].method, method) => i <= j
    ELSE 0

\* Vec::remove(i)
RemoveAt(v, i) == SubSeq(v, 1, i - 1) \o SubSeq(v, i + 1, Len(v))

\* subscribe without the removal of the entry it replaces
SubscribeNoReplace(map, request) ==
    LET app_id == request.session
    IN  IF app_id \in DOMAIN map
        THEN [map |-> MapInsert(map, app_id,
                        IF IsListening(request) THEN Append(map[app_id], request)
                        ELSE map[app_id]),
              prior |-> None]
        ELSE [map |-> MapInsert(map, app_id, <<request>>), prior |-> None]

\* ThunderBroker::subscribe: the new map and the displaced entry
Subscribe(map, request) ==
    LET app_id == request.session
        method == request.method
        listen == IsListening(request)
    IN  IF app_id \in DOMAIN map
        THEN LET v == map[app_id]
                 i == Position(v, method)
                 v1 == IF i > 0 THEN RemoveAt(v, i) ELSE v
                 v2 == IF listen THEN Append(v1, request) ELSE v1
             IN  [map |-> MapInsert(map, app_id, v2),
                  prior |-> IF i > 0 THEN Some(v[i]) ELSE None]
        ELSE [map |-> MapInsert(map, app_id, <<request>>), prior |-> None]

\* unsubscribe returning the entry without removing it
UnsubscribeKeep(map, request) ==
    LET app_id == request.session
        method == request.method
    IN  IF app_id \in DOMAIN map /\ Position(map[app_id], method) > 0
        THEN [map |-> map, prior |-> Some(map[app_id][Position(map[app_id], method)])]
        ELSE [map |-> map, prior |-> None]

\* ThunderBroker::unsubscribe: the new map and the removed entry
Unsubscribe(map, request) ==
    LET app_id == request.session
        method == request.method
    IN  IF app_id \in DOMAIN map
        THEN LET v == map[app_id]
                 i == Position(v, method)
             IN  [map |-> MapInsert(map, app_id, IF i > 0 THEN RemoveAt(v, i) ELSE v),
                  prior |-> IF i > 0 THEN Some(v[i]) ELSE None]
        ELSE [map |-> map, prior |-> None]

(***************************************************************************)
(* Request shaping.                                                        *)
(***************************************************************************)
\* EndpointBroker::apply_request_rule (no request filter in the rules of the
\* model): the body, or a parse error when params_json is no JSON array
ApplyRequestRule(request) ==
    IF ParamsIsArray(request.params)
    THEN [ok |-> TRUE,
          body |-> IF ParamsLen(request.params) > 1 THEN "last" ELSE "null"]
    ELSE [ok |-> FALSE, body |-> "ParseError"]

\* EndpointBroker::update_request: the JSON-RPC envelope of a plain call
UpdateRequest(request) ==
    LET v == ApplyRequestRule(request)
    IN  IF v.ok
        THEN [ok |-> TRUE,
              frames |-> <<CallFrame(request.call_id, RuleOf(request.method).alias, v.body)>>]
        ELSE [ok |-> FALSE, frames |-> <<>>]

\* prepare_request without the unregister frame of a displaced subscription
PrepareRequestNoUnregister(map, request) ==
    LET id == request.call_id
        cm == GetCallsignAndMethodFromAlias(RuleOf(request.method).alias)
    IN  IF IsListening(request)
        THEN [ok |-> TRUE,
              frames |-> <<RegisterFrame(id, cm.callsign, cm.method[1])>>,
              map |-> Subscribe(map, request).map]
        ELSE IF IsUnlisten(request)
        THEN [ok |-> TRUE, frames |-> <<>>, map |-> Unsubscribe(map, request).map]
        ELSE [ok |-> UpdateRequest(request).ok, frames |-> UpdateRequest(request).frames,
              map |-> map]

\* ThunderBroker::prepare_request: the frames to write, the new subscription
\* map, and whether it failed (ParseError from update_request)
PrepareRequest(map, request) ==
    LET id == request.call_id
        cm == GetCallsignAndMethodFromAlias(RuleOf(request.method).alias)
        callsign == cm.callsign
        method == cm.method[1]
    IN  IF IsSubscription(request) /\ ~IsUnlisten(request)
        THEN LET sub == Subscribe(map, request)
                 unreg == IF IsSome(sub.prior)
                          THEN <<UnregisterFrame(sub.prior[1].call_id, callsign, method)>>
                          ELSE <<>>
                 reg == IF IsListening(request)
                        THEN <<RegisterFrame(id, callsign, method)>>
                        ELSE <<>>
             IN  [ok |-> TRUE, frames |-> unreg \o reg, map |-> sub.map]
        ELSE IF IsUnlisten(request)
        THEN LET unsub == Unsubscribe(map, request)
             IN  [ok |-> TRUE,
                  frames |-> IF IsSome(unsub.prior)
                             THEN <<UnregisterFrame(unsub.prior[1].call_id, callsign, method)>>
                             ELSE <<>>,
                  map |-> unsub.map]
        ELSE LET u == UpdateRequest(request)
             IN  [ok |-> u.ok, frames |-> u.frames, map |-> map]

(***************************************************************************)
(* Plugin gating.                                                          *)
(***************************************************************************)
\* check_and_generate_plugin_activation_request treating a Missing plugin as
\* one that is merely not activated: the request is pended and an activation
\* request is written
CheckAndGenerateMissingAsInactive(st, request) ==
    LET cm == GetCallsignAndMethodFromAlias(RuleOf(request.method).alias)
        callsign == cm.callsign
    IN  IF ~IsSome(cm.method)
        THEN [outcome |-> "error", e |-> "InvalidInput", frames |-> <<>>]
        ELSE IF callsign \notin DOMAIN st
        THEN [outcome |-> "gate", e |-> "", frames |-> <<PluginStatusFrame(callsign)>>]
        ELSE IF st[callsign] = "Activating"
        THEN [outcome |-> "error", e |-> "ServiceNotReady", frames |-> <<>>]
        ELSE IF st[callsign] # "Activated"
        THEN [outcome |-> "gate", e |-> "", frames |-> <<PluginActivationFrame(callsign)>>]
        ELSE [outcome |-> "ready", e |-> "", frames |-> <<>>]

\* ThunderBroker::check_and_generate_plugin_activation_request:
\*   outcome "gate": the request goes to the pending list and `frames` (a
\*   status query or an activation request) are written; "ready": the plugin
\*   is activated; "error": Err(e)
CheckAndGeneratePluginActivationRequest(st, request) ==
    LET cm == GetCallsignAndMethodFromAlias(RuleOf(request.method).alias)
        callsign == cm.callsign
    IN  IF ~IsSome(cm.method)
        THEN [outcome |-> "error", e |-> "InvalidInput", frames |-> <<>>]
        ELSE IF callsign \notin DOMAIN st
        THEN [outcome |-> "gate", e |-> "", frames |-> <<PluginStatusFrame(callsign)>>]
        ELSE IF st[callsign] = "Missing"
        THEN [outcome |-> "error", e |-> "ServiceError", frames |-> <<>>]
        ELSE IF st[callsign] = "Activating"
        THEN [outcome |-> "error", e |-> "ServiceNotReady", frames |-> <<>>]
        ELSE IF st[callsign] # "Activated"
        THEN [outcome |-> "gate", e |-> "", frames |-> <<PluginActivationFrame(callsign)>>]
        ELSE [outcome |-> "ready", e |-> "", frames |-> <<>>]

(***************************************************************************)
(* The composite-request table.                                            *)
(***************************************************************************)
\* CompositeRequest::new(SystemTime::now(), request)
CompositeRequest(time_stamp, rpc_request) ==
    [time_stamp |-> time_stamp, rpc_request |-> rpc_request]

\* start_purge_composite_request_timer called at time t: the interval is
\* created by the caller (its first tick is due at once), the task that
\* tokio::spawn leaves has not run yet
SpawnedSweeper(t) == [pc |-> "spawned", next |-> t]

(***************************************************************************)
(* The dispatcher, as far as the Thunder driver sees it.                   *)
(***************************************************************************)
\* the requests clients hand to handle_brokerage in Spec: a plain call and a
\* listen, both on the plugin Foo
GateRequests ==
    {BrokerRequest("s1", "r-s1", 100, "dev.id", "call", "objs"),
     BrokerRequest("s1", "r-s1", 100, "dev.onFoo", "listen", "objs")}

\* the requests clients hand to handle_brokerage in SpecFwd: a plain call, a
\* listen and an unlisten, a listen whose rule has an event decorator, and a
\* listen whose rule has an event handler
FwdRequests ==
    {BrokerRequest("s1", "r-s1", 100, "dev.id", "call", "objs"),
     BrokerRequest("s1", "r-s1", 101, "dev.onFoo", "listen", "objs"),
     BrokerRequest("s1", "r-s1", 102, "dev.onFoo", "unlisten", "objs"),
     BrokerRequest("s2", "r-s2", 103, "dev.onDecorated", "listen", "objs"),
     BrokerRequest("s2", "r-s2", 104, "dev.onHandled", "listen", "objs")}

\* the requests clients hand to handle_brokerage in SpecComp: calls whose
\* last params element holds a "response" object, A or B
CompRequests ==
    {BrokerRequest("s1", "r-s1", 100, "dev.id", "call", "composite:A"),
     BrokerRequest("s1", "r-s1", 100, "dev.id", "call", "composite:B")}

\* the requests clients hand to handle_brokerage in SpecSub: listens and an
\* unlisten of two sessions on two events, one method in two spellings
SubRequests ==
    {BrokerRequest("s1", "r-s1", 100, "dev.onFoo", "listen", "objs"),
     BrokerRequest("s1", "r-s1", 100, "dev.onBar", "listen", "objs"),
     BrokerRequest("s1", "r-s1", 100, "DEV.ONFOO", "listen", "objs"),
     BrokerRequest("s1", "r-s1", 100, "dev.onFoo", "unlisten", "objs"),
     BrokerRequest("s2", "r-s2", 100, "dev.onFoo", "listen", "objs")}

\* handle_brokerage, the branch of a rule that is neither static nor provided
\* and whose endpoint (the default "thunder") has a sender: update_request
\* allocates the id and registers the request as the client sent it, and a
\* task is spawned to send the copy that carries the new call_id
HandleBrokerageCall(rpc_request) ==
    /\ LET id == ATOMIC_ID + 1
       IN  /\ ATOMIC_ID' = id
           /\ request_map' = MapInsert(request_map, id, rpc_request)
           /\ spawned' = spawned \cup {[rpc_request EXCEPT !.call_id = id]}
    /\ UNCHANGED <<pureVars, sessVars, subscribe_calls, routeVars, fwdVars, id_pc, id_local, returned, chan, cleanq, sub_map, status,
                   pending, wire, emitted, answered, driver, compVars, reconVars,
                   n_reports, n_cleanups, gateHist, drained>>

\* handle_brokerage, at most MaxReq times in a run
HandleBrokerage(rpc_request) == ATOMIC_ID < MaxReq /\ HandleBrokerageCall(rpc_request)

\* the task handle_brokerage spawned: BrokerSender::send to the Thunder driver;
\* an unlisten is acknowledged locally when the send succeeds; a failed send
\* (the receiver is gone) is reported with send_error
SpawnedSend(request) ==
    /\ request \in spawned
    /\ spawned' = spawned \ {request}
    /\ IF driver \in {"exited", "panicked"}
       THEN /\ emitted' = emitted \cup {SendError(request, "SendFailure")}
            /\ chan' = chan
       ELSE /\ Len(chan) < ChanCap
            /\ chan' = Append(chan, request)
            /\ emitted' = IF IsUnlisten(request)
                          THEN emitted \cup {LocalAck(request)}
                          ELSE emitted
    /\ UNCHANGED <<pureVars, sessVars, subscribe_calls, routeVars, fwdVars, idVars, request_map, cleanq, sub_map, status, pending, wire,
                   answered, driver, compVars, reconVars, n_reports, n_cleanups,
                   gateHist, drained>>

(***************************************************************************)
(* The Thunder driver task: the select loop of ThunderBroker::start.       *)
(***************************************************************************)
\* the composite registration loop of the request branch unwraps
\* from_str, as_array and as_object: it panics on a non-empty params_json
\* that is no array of objects
CompositeScanPanics(params) ==
    params # "blank" /\ (~ParamsIsArray(params) \/ ~ParamsAllObjects(params))

\* the request branch of the select loop for one dequeued request: gate it
\* (check_and_generate_plugin_activation_request), else shape it
\* (prepare_request), register a composite request and write the frames
RequestBranch(request) ==
    LET g == CheckAndGeneratePluginActivationRequest(status, request)
        cs == GetCallsignAndMethodFromAlias(RuleOf(request.method).alias).callsign
        p == PrepareRequest(sub_map, request)
        same == [pending |-> pending, frames |-> <<>>, errors |-> {},
                 map |-> sub_map, driver |-> "running", composite |-> FALSE,
                 gate |-> FALSE]
    IN  IF g.outcome = "gate"
        THEN [same EXCEPT !.pending = [pending EXCEPT ![cs] = Append(@, request)],
                          !.frames = g.frames, !.gate = TRUE]
        ELSE IF g.outcome = "error"
        THEN [same EXCEPT !.errors = IF g.e = "ServiceNotReady" THEN {}
                                     ELSE {SendError(request, g.e)}]
        ELSE IF ~p.ok
        THEN [same EXCEPT !.errors = {SendError(request, "ParseError")}]
        ELSE IF CompositeScanPanics(request.params)
        THEN [same EXCEPT !.map = p.map, !.driver = "panicked"]
        ELSE [same EXCEPT !.map = p.map, !.frames = p.frames,
                          !.composite = ParamsHasResponse(request.params)]

\* Some(mut request) = broker_request_rx.recv()
DriverRecv ==
    /\ driver = "running"
    /\ chan # <<>>
    /\ LET request == Head(chan)
           id == request.call_id
           cs == GetCallsignAndMethodFromAlias(RuleOf(request.method).alias).callsign
           b == RequestBranch(request)
       IN  /\ chan' = Tail(chan)
           /\ pending' = b.pending
           /\ wire' = wire \o b.frames
           /\ emitted' = emitted \cup b.errors
           /\ sub_map' = b.map
           /\ driver' = b.driver
           \* register_composite_request: insert, then spawn the purge timer
           /\ composite_request_list' =
                 IF b.composite
                 THEN MapInsert(composite_request_list, id, CompositeRequest(now, request))
                 ELSE composite_request_list
           /\ sweepers' = IF b.composite
                          THEN MapInsert(sweepers, n_sweepers + 1, SpawnedSweeper(now))
                          ELSE sweepers
           /\ n_sweepers' = IF b.composite THEN n_sweepers + 1 ELSE n_sweepers
           /\ gated' = IF b.gate /\ cs \notin DOMAIN status
                       THEN [gated EXCEPT ![cs] = Append(@, id)]
                       ELSE gated
           /\ sent_log' = IF ~b.gate /\ b.frames # <<>> THEN Append(sent_log, id)
                          ELSE sent_log
    /\ UNCHANGED <<pureVars, sessVars, subscribe_calls, routeVars, fwdVars, idVars, request_map, spawned, cleanq, status, answered,
                   purge_started, now, reconVars, n_reports, n_cleanups, drained>>

\* the frames the backend answers with a JSON-RPC response
IsAnswerable(f) == f.t \in {"call", "call_with_params", "register", "unregister"}

\* ThunderBroker::update_response: an event's params become the result, and
\* the composite params, when there are any, become the params
UpdateResponse(response, params) ==
    LET r1 == IF IsSome(response.params)
              THEN [response EXCEPT !.result = response.params]
              ELSE response
    IN  IF IsSome(params) THEN [r1 EXCEPT !.params = params] ELSE r1

\* get_composite_response_params_by_id that never finds the record
GetCompositeResponseParamsNone(list, id) == None

\* ThunderBroker::get_composite_response_params_by_id: {"response": value}
\* of the stored request, None when the id is not in the table
GetCompositeResponseParamsById(list, id) ==
    IF id \in DOMAIN list /\ ParamsHasResponse(list[id].rpc_request.params)
    THEN Some([response |-> ParamsResponse(list[id].rpc_request.params)])
    ELSE None

\* Some(value) = &mut read, Ok(Text(t)), not a controller response: the backend
\* answers frame i of the wire; the composite record is looked up and removed,
\* and handle_jsonrpc_response pushes the output
DriverRead(i) ==
    /\ driver = "running"
    /\ i \in DOMAIN wire
    /\ i \notin answered
    /\ IsAnswerable(wire[i])
    \* the backend answers the frames of a socket in the order it received them
    /\ \A j \in 1..(i - 1) : IsAnswerable(wire[j]) => j \in answered
    /\ LET id == wire[i].id
           data == BrokerOutput(Some(id), Some("ok"), None, None, None)
           params == GetCompositeResponseParamsById(composite_request_list, id)
       IN  /\ emitted' = emitted \cup {UpdateResponse(data, params)}
           /\ composite_request_list' = MapRemove(composite_request_list, id)
    /\ answered' = answered \cup {i}
    /\ UNCHANGED <<pureVars, sessVars, subscribe_calls, routeVars, fwdVars, idVars, request_map, spawned, chan, cleanq, sub_map, status,
                   pending, wire, driver, purge_started, sweepers, n_sweepers, now,
                   reconVars, n_reports, n_cleanups, gateHist, drained>>

\* the callsigns the controller frames of a run are about: the plugin of the
\* rules the client requests resolve to
ReportedCallsigns == {<<"Foo", "1">>}

\* the plugin states a controller frame can report
PluginStates == {"Activated", "Deactivated", "Activating", "Missing"}

\* Some(value) = &mut read, a controller response (a status reply or a
\* statechange event): StatusManager::handle_controller_response records the
\* state and, when it is Activated, sends the pending requests of the callsign
\* back through the driver's own sender, in order, and clears the list
ControllerReport(callsign, state) ==
    /\ driver = "running"
    /\ n_reports < MaxReports
    /\ n_reports' = n_reports + 1
    /\ status' = MapInsert(status, callsign, state)
    /\ IF state = "Activated"
       THEN /\ pending' = [pending EXCEPT ![callsign] = <<>>]
            /\ IF Len(chan) + Len(pending[callsign]) <= ChanCap
               THEN /\ chan' = chan \o pending[callsign]
                    /\ driver' = driver
               ELSE /\ chan' = chan \o SubSeq(pending[callsign], 1, ChanCap - Len(chan))
                    /\ driver' = "blocked"
       ELSE UNCHANGED <<pending, chan, driver>>
    /\ UNCHANGED <<pureVars, sessVars, subscribe_calls, routeVars, fwdVars, idVars, request_map, spawned, cleanq, sub_map, wire, emitted,
                   answered, compVars, reconVars, n_cleanups, gateHist, drained>>

\* EndpointBrokerState::cleanup_for_app -> BrokerCleaner::cleanup_session:
\* the session id is sent on the cleanup channel
CleanupSession(session) ==
    /\ driver \in {"running", "blocked"}
    /\ Len(cleanq) < CleanCap
    /\ n_cleanups' = n_cleanups + 1
    /\ cleanq' = Append(cleanq, session)
    /\ UNCHANGED <<pureVars, sessVars, subscribe_calls, routeVars, fwdVars, idVars, request_map, spawned, chan, sub_map, status, pending,
                   wire, emitted, answered, driver, compVars, reconVars, n_reports,
                   gateHist, drained>>

\* cleanup_for_app, at most MaxCleanups times in a run
CleanupForApp(session) == n_cleanups < MaxCleanups /\ CleanupSession(session)

\* Vec::pop until empty: the entries last to first, each turned into its unlisten
PopAllAsUnsubscribe(list) ==
    [i \in 1..Len(list) |-> GetUnsubscribe(list[Len(list) + 1 - i])]

\* Some(cleanup_request) = c_tr.recv(): the session's list is removed from the
\* subscription map and every entry is sent, as an unlisten, through the
\* driver's own sender
DriverCleanup ==
    /\ driver = "running"
    /\ cleanq # <<>>
    /\ LET session == Head(cleanq)
           list == IF session \in DOMAIN sub_map THEN sub_map[session] ELSE <<>>
           unl == PopAllAsUnsubscribe(list)
       IN  /\ cleanq' = Tail(cleanq)
           /\ sub_map' = MapRemove(sub_map, session)
           /\ IF Len(chan) + Len(unl) <= ChanCap
              THEN /\ chan' = chan \o unl
                   /\ driver' = driver
              ELSE /\ chan' = chan \o SubSeq(unl, 1, ChanCap - Len(chan))
                   /\ driver' = "blocked"
           /\ drained' = drained \cup
                 {[session |-> session, call_id |-> list[i].call_id] : i \in DOMAIN list}
           /\ cleaned' = Append(cleaned, session)
    /\ UNCHANGED <<pureVars, closed, subscribe_calls, routeVars, fwdVars, idVars, request_map, spawned, status, pending, wire, emitted,
                   answered, compVars, reconVars, n_reports, n_cleanups, gateHist>>

\* Some(value) = &mut read, Err(e): the loop breaks; one session of the
\* subscription map (drain().take(1), in the map's iteration order) is put into
\* the reconnect request, the map is left empty, and the request is sent to the
\* reconnect channel
DriverDisconnect ==
    /\ driver = "running"
    /\ Len(reconnect_q) < ReconnectCap
    /\ \E carried \in IF DOMAIN sub_map = {} THEN {{}} ELSE {{k} : k \in DOMAIN sub_map} :
          reconnect_q' = Append(reconnect_q,
              [connect_req EXCEPT !.sub_map =
                  [k \in (DOMAIN connect_req.sub_map) \cup carried |->
                      IF k \in carried THEN sub_map[k] ELSE connect_req.sub_map[k]]])
    /\ pre_drop' = sub_map
    /\ sub_map' = EmptyMap
    /\ driver' = "exited"
    /\ UNCHANGED <<pureVars, sessVars, subscribe_calls, routeVars, fwdVars, idVars, request_map, spawned, chan, cleanq, status, pending,
                   wire, emitted, answered, compVars, connect_req, supervisor,
                   stop_server, sockets, ws_driver, ws_sockets, n_reports, n_cleanups,
                   gateHist, drained>>

\* reconnect_thread: a Thunder endpoint is not rebuilt, the gateway is told to
\* stop the server and the thread ends; any other endpoint is rebuilt with
\* build_endpoint, which registers the sender of a fresh driver under the key
SupervisorRecv ==
    /\ supervisor = "running"
    /\ reconnect_q # <<>>
    /\ LET v == Head(reconnect_q)
       IN  /\ reconnect_q' = Tail(reconnect_q)
           /\ IF v.protocol = "Thunder"
              THEN /\ stop_server' = TRUE
                   /\ supervisor' = "stopped"
                   /\ UNCHANGED <<connect_req, sockets, driver, sub_map, wire,
                                  answered, chan, cleanq, ws_driver, ws_sockets>>
              ELSE IF v.key = "ws"
              THEN /\ ws_driver' = "running"
                   /\ ws_sockets' = ws_sockets + 1
                   /\ UNCHANGED <<connect_req, sockets, driver, sub_map, wire,
                                  answered, chan, cleanq, stop_server, supervisor>>
              ELSE /\ connect_req' = v
                   /\ sockets' = sockets + 1
                   /\ driver' = "running"
                   /\ sub_map' = v.sub_map
                   /\ wire' = <<StateChangeSubscribeFrame>>
                   /\ answered' = {}
                   /\ chan' = <<>>
                   /\ cleanq' = <<>>
                   /\ UNCHANGED <<stop_server, supervisor, ws_driver, ws_sockets>>
    /\ UNCHANGED <<pureVars, sessVars, subscribe_calls, routeVars, fwdVars, idVars, request_map, spawned, status, pending, emitted,
                   compVars, pre_drop, n_reports, n_cleanups, gateHist, drained>>

\* built drivers under key "ws" in a run of SpecRecon
MaxWsSockets == 3

\* the connect request the plain WebSocket driver was built from
WsConnectRequest == [key |-> "ws", protocol |-> "Websocket", sub_map |-> EmptyMap]

\* the plain WebSocket driver's socket read fails: the loop breaks and the
\* driver's connect request is sent to the reconnect channel; the send
\* returns an error when reconnect_thread has ended and dropped the receiver
WsDisconnect ==
    /\ ws_driver = "running"
    /\ ws_sockets < MaxWsSockets
    /\ ws_driver' = "exited"
    /\ IF supervisor = "stopped"
       THEN reconnect_q' = reconnect_q
       ELSE /\ Len(reconnect_q) < ReconnectCap
            /\ reconnect_q' = Append(reconnect_q, WsConnectRequest)
    /\ UNCHANGED <<pureVars, sessVars, subscribe_calls, routeVars, fwdVars, idVars, request_map, spawned, chan, cleanq, status, pending,
                   wire, emitted, answered, compVars, connect_req, supervisor,
                   stop_server, sockets, ws_sockets, pre_drop, driver, sub_map,
                   n_reports, n_cleanups, gateHist, drained>>

(***************************************************************************)
(* The purge timer of the composite-request table, and the clock.          *)
(***************************************************************************)
\* the spawned task, first statement: if *purge_thread_started.lock().await
\* { return }
SweeperCheck(t) ==
    /\ t \in DOMAIN sweepers
    /\ sweepers[t].pc = "spawned"
    /\ sweepers' = IF purge_started THEN MapRemove(sweepers, t)
                   ELSE [sweepers EXCEPT ![t].pc = "checked"]
    /\ UNCHANGED <<pureVars, sessVars, subscribe_calls, routeVars, fwdVars, idVars, request_map, spawned, chan, cleanq, sub_map, status,
                   pending, wire, emitted, answered, driver, composite_request_list,
                   purge_started, n_sweepers, now, reconVars, n_reports, n_cleanups,
                   gateHist, drained>>

\* the spawned task, second statement: *purge_thread_started.lock().await = true
SweeperSet(t) ==
    /\ t \in DOMAIN sweepers
    /\ sweepers[t].pc = "checked"
    /\ purge_started' = TRUE
    /\ sweepers' = [sweepers EXCEPT ![t].pc = "loop"]
    /\ UNCHANGED <<pureVars, sessVars, subscribe_calls, routeVars, fwdVars, idVars, request_map, spawned, chan, cleanq, sub_map, status,
                   pending, wire, emitted, answered, driver, composite_request_list,
                   n_sweepers, now, reconVars, n_reports, n_cleanups, gateHist,
                   drained>>

\* a sweep that removes no record
KeysToRemoveNone(list, t) == {}

\* the records a sweep removes: elapsed.as_secs() > COMPOSITE_REQUEST_TIME_OUT
KeysToRemove(list, t) ==
    {k \in DOMAIN list : t - list[k].time_stamp > COMPOSITE_REQUEST_TIME_OUT}

\* one turn of the loop: interval.tick() has fired; the expired records are
\* removed, and when the table is then empty the flag is cleared and the task
\* ends
SweeperTick(t) ==
    /\ t \in DOMAIN sweepers
    /\ sweepers[t].pc = "loop"
    /\ sweepers[t].next <= now
    /\ LET keys_to_remove == KeysToRemove(composite_request_list, now)
           left == [k \in (DOMAIN composite_request_list) \ keys_to_remove |->
                       composite_request_list[k]]
       IN  /\ composite_request_list' = left
           /\ IF DOMAIN left = {}
              THEN /\ purge_started' = FALSE
                   /\ sweepers' = MapRemove(sweepers, t)
              ELSE /\ purge_started' = purge_started
                   /\ sweepers' = [sweepers EXCEPT ![t].next = @ + PurgeInterval]
    /\ UNCHANGED <<pureVars, sessVars, subscribe_calls, routeVars, fwdVars, idVars, request_map, spawned, chan, cleanq, sub_map, status,
                   pending, wire, emitted, answered, driver, n_sweepers, now,
                   reconVars, n_reports, n_cleanups, gateHist, drained>>

\* a purge timer task has a step to take at the current instant
SweeperDue ==
    \E t \in DOMAIN sweepers :
        sweepers[t].pc \in {"spawned", "checked"} \/ sweepers[t].next <= now

\* a second passes; the purge timer tasks are never late
Tick ==
    /\ now < MaxTime
    /\ ~SweeperDue
    /\ now' = now + 1
    /\ UNCHANGED <<pureVars, sessVars, subscribe_calls, routeVars, fwdVars, idVars, request_map, spawned, chan, cleanq, sub_map, status,
                   pending, wire, emitted, answered, driver, composite_request_list,
                   purge_started, sweepers, n_sweepers, reconVars, n_reports,
                   n_cleanups, gateHist, drained>>

(***************************************************************************)
(* Id allocation under concurrent callers.                                 *)
(***************************************************************************)
Callers == 1..NumCallers

\* the request caller c registers
CallerRequest(c) == BrokerRequest("s1", "r-s1", 100 + c, "dev.id", "call", "objs")

\* get_next_id, first statement: ATOMIC_ID.fetch_add(1, Ordering::Relaxed)
GetNextIdFetchAdd(c) ==
    /\ id_pc[c] = "idle"
    /\ ATOMIC_ID < MaxIds
    /\ ATOMIC_ID' = ATOMIC_ID + 1
    /\ id_pc' = [id_pc EXCEPT ![c] = "added"]
    /\ UNCHANGED <<pureVars, sessVars, subscribe_calls, routeVars, fwdVars, id_local, returned, request_map, spawned, chan, cleanq, sub_map,
                   status, pending, wire, emitted, answered, driver, compVars,
                   reconVars, n_reports, n_cleanups, gateHist, drained>>

\* get_next_id, second statement: ATOMIC_ID.load(Ordering::Relaxed), returned
GetNextIdLoad(c) ==
    /\ id_pc[c] = "added"
    /\ id_local' = [id_local EXCEPT ![c] = ATOMIC_ID]
    /\ returned' = Append(returned, ATOMIC_ID)
    /\ id_pc' = [id_pc EXCEPT ![c] = "loaded"]
    /\ UNCHANGED <<pureVars, sessVars, subscribe_calls, routeVars, fwdVars, ATOMIC_ID, request_map, spawned, chan, cleanq, sub_map, status,
                   pending, wire, emitted, answered, driver, compVars, reconVars,
                   n_reports, n_cleanups, gateHist, drained>>

\* update_request: request_map.insert(id, BrokerRequest { .. })
UpdateRequestInsert(c) ==
    /\ id_pc[c] = "loaded"
    /\ request_map' = MapInsert(request_map, id_local[c], CallerRequest(c))
    /\ id_pc' = [id_pc EXCEPT ![c] = "idle"]
    /\ UNCHANGED <<pureVars, sessVars, subscribe_calls, routeVars, fwdVars, ATOMIC_ID, id_local, returned, spawned, chan, cleanq, sub_map,
                   status, pending, wire, emitted, answered, driver, compVars,
                   reconVars, n_reports, n_cleanups, gateHist, drained>>

(***************************************************************************)
(* The request registry and the response forwarder.  A method of an output *)
(* is the sequence of its dot-separated tokens.                            *)
(***************************************************************************)
\* str::parse::<u64> on a token: Some(n) for the decimal numerals of the model
ParseU64(tok) ==
    IF \E n \in 0..MaxTok : ToString(n) = tok
    THEN Some(CHOOSE n \in 0..MaxTok : ToString(n) = tok)
    ELSE None

\* BrokerOutput::get_event: the first token of the method, when it parses
GetEvent(output) ==
    IF IsSome(output.method) /\ Len(output.method[1]) > 0
    THEN ParseU64(output.method[1][1])
    ELSE None

\* EndpointBrokerState::get_request without the removal
GetRequestKeep(map, id) ==
    IF id \in DOMAIN map
    THEN [found |-> TRUE, request |-> Some(map[id]), map |-> map]
    ELSE [found |-> FALSE, request |-> None, map |-> map]

\* EndpointBrokerState::get_request: the entry is removed unless it is a
\* subscription
GetRequest(map, id) ==
    IF id \in DOMAIN map
    THEN [found |-> TRUE, request |-> Some(map[id]),
          map |-> IF ~IsSubscription(map[id]) THEN MapRemove(map, id) ELSE map]
    ELSE [found |-> FALSE, request |-> None, map |-> map]

\* update_unsubscribe_request that leaves the entry as it was
UpdateUnsubscribeRequestNoop(map, id) == map

\* EndpointBrokerState::update_unsubscribe_request
UpdateUnsubscribeRequest(map, id) ==
    IF id \in DOMAIN map
    THEN [map EXCEPT ![id].subscription_processed = TRUE]
    ELSE map

\* JsonRpcApiResponse::update_event_message (ripple_sdk): the method becomes
\* the client-facing one, the client's method followed by the event's suffix
UpdateEventMessage(response, rpc_request) ==
    [response EXCEPT !.method =
        Some(<<rpc_request.method>> \o
             (IF IsSome(response.method) THEN Tail(response.method[1]) ELSE <<>>))]

(***************************************************************************)
(* Response filters.  jq_compile (the jq engine, not under src/) is given  *)
(* by its outcome: Err, or Ok(out) with out a JSON value.  The values are  *)
(* JSON null, a number, an object with no "error" member, and objects with *)
(* an "error" member that is null or a value.                              *)
(***************************************************************************)
JqOutputs == {"null", "1", "obj", "obj_error_null", "obj_error_e"}
JqResults == {[ok |-> FALSE, out |-> "jq error"]} \cup {[ok |-> TRUE, out |-> v] : v \in JqOutputs}

\* jq_out.is_object() && jq_out.get("error").is_some()
IsObjectWithError(v) == v \in {"obj_error_null", "obj_error_e"}
\* jq_out.get("error").unwrap()
ErrorMember(v) == IF v = "obj_error_null" THEN "null" ELSE "e"

\* apply_response that leaves the result in place when the filter output
\* holds an error
ApplyResponseKeepResult(response, jq) ==
    IF jq.ok
    THEN IF IsObjectWithError(jq.out)
         THEN [response EXCEPT !.error = Some(ErrorMember(jq.out))]
         ELSE [response EXCEPT !.result = Some(jq.out), !.error = None]
    ELSE [response EXCEPT !.error = Some(jq.out)]

\* apply_response, from the outcome of jq_compile on: the filter output's
\* "error" member becomes the error and the result is cleared, any other
\* output becomes the result and the error is cleared; when jq fails the
\* error is set and the result is left as it was
ApplyResponse(response, jq) ==
    IF jq.ok
    THEN IF IsObjectWithError(jq.out)
         THEN [response EXCEPT !.error = Some(ErrorMember(jq.out)), !.result = None]
         ELSE [response EXCEPT !.result = Some(jq.out), !.error = None]
    ELSE [response EXCEPT !.error = Some(jq.out)]

\* ApiMessage::new with the session it is sent to; `output` (history) is the
\* output the forwarder was handling and `at` (history) the number of the
\* lookup that found the request, filled in by ForwarderRecv
ApiMessage(rpc_request, response, output) ==
    [session |-> rpc_request.session, request_id |-> rpc_request.request_id,
     response |-> response, output |-> output, at |-> 0]

\* the outcomes of jq_compile on a match filter: Err, or Ok with null, a
\* boolean, or a value that is neither (a number)
MatchResults ==
    {[ok |-> FALSE, out |-> "jq error"]}
    \cup {[ok |-> TRUE, out |-> v] : v \in {"null", "true", "false", "1"}}

\* apply_filter: with a match filter whose evaluation succeeds, null is false
\* and anything else is r.as_bool().unwrap(), which panics on a value that is
\* no boolean; with no filter, or when jq fails, true
ApplyFilter(rule, jq) ==
    IF IsSome(rule.filter) /\ jq.ok
    THEN CASE jq.out = "null" -> "false"
           [] jq.out \in {"true", "false"} -> jq.out
           [] OTHER -> "panic"
    ELSE "true"

\* apply_rule_for_event: the filter's output becomes the result; when jq
\* fails the response is left as it was
ApplyRuleForEvent(response, jq) ==
    IF jq.ok THEN [response EXCEPT !.result = Some(jq.out)] ELSE response

\* output.data.params is an object with a "response" member that is a string
HasResponseParam(output) ==
    IsSome(output.params) /\ "response" \in DOMAIN output.params[1]

\* the outcomes jq can have during one turn of the forwarder: one for each
\* filter the turn evaluates (the others are not run)
JqNotRun == [ok |-> FALSE, out |-> "not run"]
NoJq == [response |-> JqNotRun, event |-> JqNotRun, match |-> JqNotRun]
JqChoices(broker_request, output, is_event) ==
    LET rule == RuleOf(broker_request.method)
        event_path == is_event /\ IsSome(output.result) /\ ~IsSome(rule.event_handler)
        response_path == ~IsSome(output.result)
                         \/ (~is_event /\ ~IsSubscription(broker_request))
    IN  {[response |-> r, event |-> e, match |-> f] :
            r \in IF response_path
                     /\ (IsSome(rule.response_filter) \/ HasResponseParam(output))
                  THEN JqResults ELSE {JqNotRun},
            e \in IF event_path /\ IsSome(rule.event_filter)
                  THEN JqResults ELSE {JqNotRun},
            f \in IF event_path /\ IsSome(rule.filter)
                  THEN MatchResults ELSE {JqNotRun}}

\* one turn of the forwarder's loop for an output whose request was found:
\* the registry after it, the messages it (or the task it spawns) sends to
\* the session, to the inline callback and to the telemetry listeners, and
\* whether the turn panicked; jq holds the outcomes of the filters
ForwardFound(map, output, broker_request, id, is_event, jq) ==
    LET response == output
        rule == RuleOf(broker_request.method)
        with_id(r) == [r EXCEPT !.id = Some(broker_request.call_id)]
        nothing == [map |-> map, sent |-> {}, callback |-> {}, tele |-> {},
                    panicked |-> FALSE]
        \* the spawned tasks (handle_event, the decorator) send to the session
        to_session(r) == [nothing EXCEPT !.sent = {ApiMessage(broker_request, r, output)}]
        \* the tail of the turn: the response filter, the id, the delivery
        \* target, the telemetry listeners
        tail(m, r, apply_response_needed) ==
            LET r1 == IF ~apply_response_needed THEN r
                      ELSE IF HasResponseParam(output) \/ IsSome(rule.response_filter)
                      THEN ApplyResponse(r, jq.response)
                      ELSE IF ~IsSome(r.result) /\ ~IsSome(r.error)
                      THEN [r EXCEPT !.result = Some("null")]
                      ELSE r
                r2 == with_id(r1)
                r3 == IF ~broker_request.workflow_callback /\ is_event
                      THEN UpdateEventMessage(r2, broker_request) ELSE r2
                msg == ApiMessage(broker_request, r3, output)
            IN  [map |-> m,
                 sent |-> IF broker_request.workflow_callback THEN {} ELSE {msg},
                 callback |-> IF broker_request.workflow_callback THEN {msg} ELSE {},
                 tele |-> {[listener |-> l, msg |-> msg] :
                              l \in broker_request.telemetry_response_listeners},
                 panicked |-> FALSE]
    IN  IF IsSome(response.result) /\ is_event
        THEN IF IsSome(rule.event_handler)
             \* handle_event: the handler's result, the client's id, the event message
             THEN to_session(UpdateEventMessage(
                                 with_id([response EXCEPT !.result = Some("handled")]),
                                 broker_request))
             ELSE LET r_ev == IF IsSome(rule.event_filter)
                              THEN ApplyRuleForEvent(response, jq.event)
                              ELSE response
                      pass == ApplyFilter(rule, jq.match)
                  IN  IF pass = "panic" THEN [nothing EXCEPT !.panicked = TRUE]
                      ELSE IF pass = "false" THEN nothing
                      ELSE IF IsSome(rule.event_decorator_method)
                      \* the decorator task: the decorated result and the client's id
                      THEN to_session(with_id([r_ev EXCEPT !.result = Some("decorated")]))
                      ELSE tail(map, r_ev, FALSE)
        ELSE IF IsSome(response.result) /\ IsSubscription(broker_request)
        THEN IF broker_request.subscription_processed
             THEN nothing
             ELSE tail(UpdateUnsubscribeRequest(map, id),
                       [response EXCEPT !.result =
                           Some(IF IsListening(broker_request)
                                THEN "listening" ELSE "not listening")],
                       FALSE)
        ELSE tail(map, response, TRUE)

\* SessionState::get_session_for_connection_id: None for a session that is
\* gone
GetSessionForConnectionId(gone, session_id) ==
    IF session_id \in gone THEN None ELSE Some(session_id)

\* Some(output) = rx.recv() in start_forwarder; a panic ends the task; a
\* message is sent to its session when the session lookup finds it
ForwarderRecv(output) ==
    /\ forwarder = "running"
    /\ output \in emitted
    /\ emitted' = emitted \ {output}
    /\ LET e == GetEvent(output)
           is_event == IsSome(e)
           id == IF is_event THEN e ELSE output.id
       IN  IF ~IsSome(id)
           THEN UNCHANGED <<request_map, delivered, lookups, forwarder, callback_sent,
                            tele_sent>>
           ELSE LET g == GetRequest(request_map, id[1])
                    at(m) == [m EXCEPT !.at = Len(lookups) + 1]
                    looked(jq) == [id |-> id[1], found |-> g.found,
                                   subscription |-> g.found /\ IsSubscription(g.request[1]),
                                   jq |-> jq]
                IN  IF g.found
                    THEN \E jq \in JqChoices(g.request[1], output, is_event) :
                            LET f == ForwardFound(g.map, output, g.request[1], id[1],
                                                  is_event, jq)
                            IN  /\ lookups' = Append(lookups, looked(jq))
                                /\ request_map' = f.map
                                /\ delivered' = delivered \cup
                                      {at(m) : m \in {x \in f.sent :
                                          IsSome(GetSessionForConnectionId(closed, x.session))}}
                                /\ callback_sent' = callback_sent \cup
                                      {at(m) : m \in f.callback}
                                /\ tele_sent' = tele_sent \cup
                                      {[t EXCEPT !.msg = at(t.msg)] : t \in f.tele}
                                /\ forwarder' = IF f.panicked THEN "panicked" ELSE forwarder
                    ELSE /\ lookups' = Append(lookups, looked(NoJq))
                         /\ request_map' = g.map
                         /\ UNCHANGED <<delivered, forwarder, callback_sent, tele_sent>>
    /\ UNCHANGED <<pureVars, sessVars, subscribe_calls, routeVars, idVars, spawned, chan, cleanq, sub_map, status, pending, wire,
                   answered, driver, compVars, reconVars, n_reports, n_cleanups,
                   gateHist, drained, n_outputs>>

\* the outputs a driver pushes in SpecFwd: a response to id n, an event of the
\* listen n (with no id, or with another id than n), and an output whose
\* method does not start with a number
BackendOutputs ==
    {BrokerOutput(Some(n), Some("ok"), None, None, None) : n \in 1..MaxReq}
    \cup {BrokerOutput(i, Some("ev"), None, Some(<<ToString(n), "changed">>), None) :
            n \in 1..MaxReq, i \in {None, Some(MaxTok)}}
    \cup {BrokerOutput(Some(n), Some("ok"), None, Some(<<"Foo", "changed">>), None) :
            n \in 1..1}

\* serde_json::from_slice::<JsonRpcApiResponse>: the "result" member decoded
\* into Option<Value>; a missing member and a JSON null both decode to None
DecodeResult(j) == IF j \in {"absent", "null"} THEN None ELSE Some(j)

\* the requests clients hand to handle_brokerage in SpecAck: a listen, the
\* unlisten of the same session and method, and a plain call
AckRequests ==
    {BrokerRequest("s1", "r-s1", 100, "dev.id", "call", "objs"),
     BrokerRequest("s1", "r-s1", 101, "dev.onFoo", "listen", "objs"),
     BrokerRequest("s1", "r-s1", 102, "dev.onFoo", "unlisten", "objs")}

\* the outputs a driver pushes in SpecAck: the backend's response to frame n
\* with a null result or with a value, and an event of the listen n
AckOutputs ==
    {BrokerOutput(Some(n), DecodeResult(j), None, None, None) :
        n \in 1..MaxReq, j \in {"null", "ok"}}
    \cup {BrokerOutput(None, Some("ev"), None, Some(<<ToString(n), "changed">>), None) :
            n \in 1..MaxReq}

\* a driver pushes an output to the forwarder's channel
DriverOutput(output) ==
    /\ n_outputs < MaxOutputs
    /\ output \notin emitted
    /\ n_outputs' = n_outputs + 1
    /\ emitted' = emitted \cup {output}
    /\ UNCHANGED <<pureVars, sessVars, subscribe_calls, routeVars, idVars, request_map, spawned, chan, cleanq, sub_map, status,
                   pending, wire, answered, driver, compVars, reconVars, n_reports,
                   n_cleanups, gateHist, drained, delivered, lookups, forwarder,
                   callback_sent, tele_sent>>

(***************************************************************************)
(* The state after construction: the endpoint state is new, the Thunder    *)
(* driver has connected and written the statechange subscription, and the  *)
(* purge timer task it spawned at start has not run yet.                   *)
(***************************************************************************)
InitBroker ==
    /\ ATOMIC_ID = ATOMIC_ID_INIT
    /\ id_pc = [c \in Callers |-> "idle"]
    /\ id_local = [c \in Callers |-> 0]
    /\ returned = <<>>
    /\ request_map = EmptyMap
    /\ spawned = {}
    /\ chan = <<>>
    /\ cleanq = <<>>
    /\ sub_map = EmptyMap
    /\ status = EmptyMap
    /\ pending = [cs \in Callsigns |-> <<>>]
    /\ wire = <<StateChangeSubscribeFrame>>
    /\ emitted = {}
    /\ answered = {}
    /\ driver = "running"
    /\ connect_req = [key |-> "thunder", protocol |-> "Thunder", sub_map |-> EmptyMap]
    /\ reconnect_q = <<>>
    /\ supervisor = "running"
    /\ stop_server = FALSE
    /\ sockets = 1
    /\ ws_driver = "running"
    /\ ws_sockets = 1
    /\ composite_request_list = EmptyMap
    /\ purge_started = FALSE
    /\ sweepers = MapInsert(EmptyMap, 1, SpawnedSweeper(0))
    /\ n_sweepers = 1
    /\ now = 0
    /\ n_reports = 0
    /\ n_cleanups = 0
    /\ gated = [cs \in Callsigns |-> <<>>]
    /\ sent_log = <<>>
    /\ drained = {}
    /\ pre_drop = EmptyMap
    /\ delivered = {}
    /\ lookups = <<>>
    /\ n_outputs = 0
    /\ forwarder = "running"
    /\ callback_sent = {}
    /\ tele_sent = {}
    /\ http_chan = <<>>
    /\ http_driver = "running"
    /\ handled_log = {}
    /\ routed = {}
    /\ pushed = {}
    /\ send_failed = {}
    /\ http_replies = {}
    /\ extension_request_map = {}
    /\ closed = {}
    /\ cleaned = <<>>
    /\ subscribe_calls = <<>>

\* the keys an endpoint map may hold
EndpointKeys == {"thunder", "http"}

\* the endpoint map after build_thunder_endpoint
Init ==
    /\ InitBroker /\ endpoint_map = {"thunder"} /\ http_json_rpc = TRUE
    /\ arg = None /\ ret = None

\* the endpoint map after build_thunder_endpoint and build_other_endpoints
\* for a configuration that holds any of the endpoints, the HTTP endpoint
\* with jsonrpc set or not
InitRoute ==
    /\ InitBroker /\ endpoint_map \in SUBSET EndpointKeys /\ http_json_rpc \in BOOLEAN
    /\ arg = None /\ ret = None

NextId ==
    \E c \in Callers :
        \/ GetNextIdFetchAdd(c)
        \/ GetNextIdLoad(c)
        \/ UpdateRequestInsert(c)

SpecId == Init /\ [][NextId]_vars

\* the Thunder driver with its plugin gating: requests, controller frames and
\* the backend's responses
Next ==
    \/ \E r \in GateRequests : HandleBrokerage(r)
    \/ \E r \in spawned : SpawnedSend(r)
    \/ DriverRecv
    \/ \E i \in DOMAIN wire : DriverRead(i)
    \/ \E cs \in ReportedCallsigns, st \in PluginStates : ControllerReport(cs, st)

Spec == Init /\ [][Next]_vars

\* the Thunder driver with its subscription map: listens and unlistens of a
\* plugin that is reported Activated, session cleanup, and the disconnect with
\* its hand-off to the reconnect thread
NextSub ==
    \/ \E r \in SubRequests : HandleBrokerage(r)
    \/ \E r \in spawned : SpawnedSend(r)
    \/ DriverRecv
    \/ \E cs \in ReportedCallsigns :
          cs \notin DOMAIN status /\ ControllerReport(cs, "Activated")
    \/ \E s \in Sessions : CleanupForApp(s)
    \/ DriverCleanup
    \/ DriverDisconnect
    \/ SupervisorRecv

SpecSub == Init /\ [][NextSub]_vars

\* cleanup_for_app calls in a run of SpecClean
MaxCleanCalls == 2

\* the listens clients hand to handle_brokerage in SpecClean: two sessions,
\* two events
CleanRequests ==
    {BrokerRequest("s1", "r-s1", 100, "dev.onFoo", "listen", "objs"),
     BrokerRequest("s1", "r-s1", 100, "dev.onBar", "listen", "objs"),
     BrokerRequest("s2", "r-s2", 100, "dev.onFoo", "listen", "objs")}

\* the Thunder driver under repeated session cleanup: listens of a plugin
\* that is reported Activated, and cleanup_for_app called again and again
NextClean ==
    \/ \E r \in CleanRequests : HandleBrokerage(r)
    \/ \E r \in spawned : SpawnedSend(r)
    \/ DriverRecv
    \/ \E cs \in ReportedCallsigns :
          cs \notin DOMAIN status /\ ControllerReport(cs, "Activated")
    \/ \E s \in Sessions : n_cleanups < MaxCleanCalls /\ CleanupSession(s)
    \/ DriverCleanup

SpecClean == Init /\ [][NextClean]_vars

\* the session is removed from the session state when its connection closes
SessionClose(session) ==
    /\ session \notin closed
    /\ closed' = closed \cup {session}
    /\ UNCHANGED <<pureVars, cleaned, subscribe_calls, routeVars, fwdVars, idVars,
                   request_map, spawned, chan, cleanq, sub_map, status, pending, wire,
                   emitted, answered, driver, compVars, reconVars, n_reports, n_cleanups,
                   gateHist, drained>>

\* requests a run of SpecGone hands to handle_brokerage
MaxGoneReq == 2

\* the requests clients hand to handle_brokerage in SpecGone: a call and a
\* listen of one session, a call of another
GoneRequests ==
    {BrokerRequest("s1", "r-s1", 100, "dev.id", "call", "objs"),
     BrokerRequest("s1", "r-s1", 101, "dev.onFoo", "listen", "objs"),
     BrokerRequest("s2", "r-s2", 102, "dev.id", "call", "objs")}

\* sessions that close while requests are in flight: requests are written
\* and answered by the backend, a session closes and its cleanup is called,
\* the forwarder handles the responses
NextGone ==
    \/ \E r \in GoneRequests : ATOMIC_ID < MaxGoneReq /\ HandleBrokerage(r)
    \/ \E r \in spawned : SpawnedSend(r)
    \/ DriverRecv
    \/ \E i \in DOMAIN wire : DriverRead(i)
    \/ \E cs \in ReportedCallsigns :
          cs \notin DOMAIN status /\ ControllerReport(cs, "Activated")
    \/ \E s \in Sessions : SessionClose(s)
    \/ \E s \in closed : CleanupForApp(s)
    \/ DriverCleanup
    \/ \E o \in emitted : ForwarderRecv(o)

SpecGone == Init /\ [][NextGone]_vars

\* the Thunder driver with its composite-request table: composite calls to a
\* plugin that is reported Activated, the backend's responses, the purge timer
\* tasks and the clock
NextComp ==
    \/ \E r \in CompRequests : ATOMIC_ID < MaxCompReq /\ HandleBrokerage(r)
    \/ \E r \in spawned : SpawnedSend(r)
    \/ DriverRecv
    \/ \E i \in DOMAIN wire : DriverRead(i)
    \/ \E cs \in ReportedCallsigns :
          cs \notin DOMAIN status /\ ControllerReport(cs, "Activated")
    \/ \E t \in DOMAIN sweepers : SweeperCheck(t)
    \/ \E t \in DOMAIN sweepers : SweeperSet(t)
    \/ \E t \in DOMAIN sweepers : SweeperTick(t)
    \/ Tick

SpecComp == Init /\ [][NextComp]_vars

\* a step of a purge timer task
SweeperStep ==
    \E t \in DOMAIN sweepers : SweeperCheck(t) \/ SweeperSet(t) \/ SweeperTick(t)

\* the composite-request table when no response ever arrives: composite
\* calls to a plugin that is reported Activated are written, the purge timer
\* tasks run and the clock advances
NextSweep ==
    \/ \E r \in CompRequests : ATOMIC_ID < MaxCompReq /\ HandleBrokerage(r)
    \/ \E r \in spawned : SpawnedSend(r)
    \/ DriverRecv
    \/ \E cs \in ReportedCallsigns :
          cs \notin DOMAIN status /\ ControllerReport(cs, "Activated")
    \/ SweeperStep
    \/ Tick

\* the runtime runs every spawned task that can take a step, and time passes
SpecSweep ==
    /\ Init /\ [][NextSweep]_vars
    /\ WF_vars(SweeperStep) /\ WF_vars(Tick)

\* the reconnection supervisor with a Thunder driver and a plain WebSocket
\* driver: requests are sent to the Thunder driver, either driver's socket
\* drops, and reconnect_thread takes the connect requests
NextRecon ==
    \/ \E r \in SubRequests : HandleBrokerage(r)
    \/ \E r \in spawned : SpawnedSend(r)
    \/ DriverRecv
    \/ DriverDisconnect
    \/ WsDisconnect
    \/ SupervisorRecv

\* the runtime runs reconnect_thread whenever a connect request waits
SpecRecon == Init /\ [][NextRecon]_vars /\ WF_vars(SupervisorRecv)

\* the requests clients hand to handle_brokerage in SpecShapes: calls,
\* listens and unlistens whose params_json is empty, no array, an array with
\* elements that are no objects, or an array of objects
ShapeRequests ==
    {BrokerRequest("s1", "r-s1", 100, "dev.id", "call", p) :
        p \in {"blank", "text", "scalars", "objs"}}
    \cup {BrokerRequest("s1", "r-s1", 100, "dev.onFoo", k, p) :
        k \in {"listen", "unlisten"}, p \in {"blank", "text", "scalars"}}

\* the Thunder driver serving requests of every params_json shape
NextShapes ==
    \/ \E r \in ShapeRequests : ATOMIC_ID < MaxShapeReq /\ HandleBrokerage(r)
    \/ \E r \in spawned : SpawnedSend(r)
    \/ DriverRecv
    \/ \E cs \in ReportedCallsigns :
          cs \notin DOMAIN status /\ ControllerReport(cs, "Activated")

SpecShapes == Init /\ [][NextShapes]_vars

\* the requests clients hand to handle_brokerage in SpecFull
FullRequests ==
    {BrokerRequest("s1", "r-s1", 100, "dev.onFoo", "listen", "objs"),
     BrokerRequest("s1", "r-s1", 100, "dev.id", "call", "objs")}

\* the driver's inbound channel filling up: a client subscribes and then
\* sends calls, one after the other, the driver takes them when it is
\* scheduled, and the session is cleaned up
NextFull ==
    \/ \E r \in FullRequests :
          /\ ATOMIC_ID < MaxFullReq /\ spawned = {}
          /\ IsSubscription(r) <=> ATOMIC_ID = ATOMIC_ID_INIT
          /\ HandleBrokerageCall(r)
    \/ \E r \in spawned : SpawnedSend(r)
    \/ DriverRecv
    \/ \E cs \in ReportedCallsigns :
          cs \notin DOMAIN status /\ ControllerReport(cs, "Activated")
    \/ CleanupForApp("s1")
    \/ DriverCleanup

SpecFull == Init /\ [][NextFull]_vars

(***************************************************************************)
(* The locks of the purge timer (SpecLock): the turn of the loop that       *)
(* empties the table is taken in the steps its lock acquisitions make.      *)
(***************************************************************************)
\* the guard of composite_request_list.lock() is not held by a purge timer
ListLockFree ==
    \A t \in DOMAIN sweepers : sweepers[t].pc \notin {"clearing", "cleared"}

\* the guard of purge_thread_started.lock() is not held by a purge timer
FlagLockFree == \A t \in DOMAIN sweepers : sweepers[t].pc # "cleared"

\* one turn of the loop up to `if composite_request_list.is_empty()`: the
\* table is locked and the expired records are removed; on an empty table
\* the task goes on to purge_thread_started.lock().await with the guard of
\* the table still in scope, else the guard is dropped at the end of the turn
SweeperTickLocked(t) ==
    /\ t \in DOMAIN sweepers
    /\ sweepers[t].pc = "loop"
    /\ sweepers[t].next <= now
    /\ ListLockFree
    /\ LET keys_to_remove == KeysToRemove(composite_request_list, now)
           left == [k \in (DOMAIN composite_request_list) \ keys_to_remove |->
                       composite_request_list[k]]
       IN  /\ composite_request_list' = left
           /\ sweepers' = IF DOMAIN left = {}
                          THEN [sweepers EXCEPT ![t].pc = "clearing"]
                          ELSE [sweepers EXCEPT ![t].next = @ + PurgeInterval]
    /\ UNCHANGED <<pureVars, sessVars, subscribe_calls, routeVars, fwdVars, idVars, request_map, spawned, chan, cleanq, sub_map, status,
                   pending, wire, emitted, answered, driver, purge_started,
                   n_sweepers, now, reconVars, n_reports, n_cleanups, gateHist,
                   drained>>

\* purge_thread_started.lock().await returns and the flag is cleared
SweeperClearFlag(t) ==
    /\ t \in DOMAIN sweepers
    /\ sweepers[t].pc = "clearing"
    /\ FlagLockFree
    /\ purge_started' = FALSE
    /\ sweepers' = [sweepers EXCEPT ![t].pc = "cleared"]
    /\ UNCHANGED <<pureVars, sessVars, subscribe_calls, routeVars, fwdVars, idVars, request_map, spawned, chan, cleanq, sub_map, status,
                   pending, wire, emitted, answered, driver, composite_request_list,
                   n_sweepers, now, reconVars, n_reports, n_cleanups, gateHist,
                   drained>>

\* break: both guards are dropped and the task ends
SweeperBreak(t) ==
    /\ t \in DOMAIN sweepers
    /\ sweepers[t].pc = "cleared"
    /\ sweepers' = MapRemove(sweepers, t)
    /\ UNCHANGED <<pureVars, sessVars, subscribe_calls, routeVars, fwdVars, idVars, request_map, spawned, chan, cleanq, sub_map, status,
                   pending, wire, emitted, answered, driver, composite_request_list, purge_started,
                   n_sweepers, now, reconVars, n_reports, n_cleanups, gateHist,
                   drained>>

\* the locks a purge timer task holds
LocksHeld(t) ==
    CASE sweepers[t].pc = "clearing" -> {"composite_request_list"}
      [] sweepers[t].pc = "cleared" ->
            {"composite_request_list", "purge_thread_started"}
      [] OTHER -> {}

\* the purge timer task is suspended in the acquisition of a lock
AwaitsLock(t) == sweepers[t].pc = "clearing"

\* the purge timer tasks and the driver's register_composite_request, each
\* waiting for the lock it needs
NextLock ==
    \/ \E r \in CompRequests : ATOMIC_ID < MaxCompReq /\ HandleBrokerage(r)
    \/ \E r \in spawned : SpawnedSend(r)
    \/ ListLockFree /\ DriverRecv
    \/ \E cs \in ReportedCallsigns :
          cs \notin DOMAIN status /\ ControllerReport(cs, "Activated")
    \/ \E t \in DOMAIN sweepers : FlagLockFree /\ SweeperCheck(t)
    \/ \E t \in DOMAIN sweepers : FlagLockFree /\ SweeperSet(t)
    \/ \E t \in DOMAIN sweepers : SweeperTickLocked(t)
    \/ \E t \in DOMAIN sweepers : SweeperClearFlag(t)
    \/ \E t \in DOMAIN sweepers : SweeperBreak(t)
    \/ Tick

SpecLock == Init /\ [][NextLock]_vars

\* the request registry and the response forwarder: requests are registered,
\* drivers push outputs, the forwarder handles them
NextFwd ==
    \/ \E r \in FwdRequests : HandleBrokerage(r)
    \/ \E o \in BackendOutputs : DriverOutput(o)
    \/ \E o \in emitted : ForwarderRecv(o)

SpecFwd == Init /\ [][NextFwd]_vars

\* the request registry and the response forwarder under acknowledgements:
\* a listen, its unlisten and a call are registered, the driver pushes
\* responses with and without a result and events, the forwarder handles them
NextAck ==
    \/ \E r \in AckRequests : HandleBrokerage(r)
    \/ \E o \in AckOutputs : DriverOutput(o)
    \/ \E o \in emitted : ForwarderRecv(o)

SpecAck == Init /\ [][NextAck]_vars

\* the listens clients hand to handle_brokerage in SpecEvt: one with a plain
\* rule, one whose rule has an event handler, one whose rule has a decorator
EvtRequests ==
    {BrokerRequest("s1", "r-s1", 100, "dev.onFoo", "listen", "objs"),
     BrokerRequest("s1", "r-s1", 101, "dev.onHandled", "listen", "objs"),
     BrokerRequest("s2", "r-s2", 102, "dev.onDecorated", "listen", "objs")}

\* the k-th frame the driver reads from the socket, an event of the listen n:
\* its payload is its position in the order of reading
EventOutputs(k) ==
    {BrokerOutput(None, Some(ToString(k)), None, Some(<<ToString(n), "changed">>), None) :
        n \in 1..MaxReq}

\* the position of an event output in the order the driver read it
ReadSeq(output) == ParseU64(output.result[1])[1]

\* events: listens are registered, the driver reads events one after another
\* and handle_jsonrpc_response spawns a task per event that pushes it to the
\* forwarder's channel, the forwarder handles what has been pushed
NextEvt ==
    \/ \E r \in EvtRequests : HandleBrokerage(r)
    \/ \E o \in EventOutputs(n_outputs + 1) : DriverOutput(o)
    \/ \E o \in emitted : ForwarderRecv(o)

SpecEvt == Init /\ [][NextEvt]_vars

\* the requests clients hand to handle_brokerage in SpecFilt: a call whose
\* rule has a response filter, a listen whose rule has a match filter,
\* and a listen whose rule has an event filter
FiltRequests ==
    {BrokerRequest("s1", "r-s1", 100, "flt.get", "call", "objs"),
     BrokerRequest("s1", "r-s1", 101, "flt.onMatch", "listen", "objs"),
     BrokerRequest("s2", "r-s2", 102, "flt.onXform", "listen", "objs")}

\* the forwarder under filters: requests are registered, the driver pushes
\* responses and events, the forwarder evaluates the rule's filters on them
\* the outputs a driver pushes in SpecFilt: the backend's response to frame
\* n with a result, and an event of the listen n
FiltOutputs ==
    {BrokerOutput(Some(n), Some("ok"), None, None, None) : n \in 1..MaxReq}
    \cup {BrokerOutput(None, Some("ev"), None, Some(<<ToString(n), "changed">>), None) :
            n \in 1..MaxReq}

NextFilt ==
    \/ \E r \in FiltRequests : HandleBrokerage(r)
    \/ \E o \in FiltOutputs : DriverOutput(o)
    \/ \E o \in emitted : ForwarderRecv(o)

SpecFilt == Init /\ [][NextFilt]_vars

\* the telemetry listeners a request can carry
Listeners == {"t1", "t2"}

\* the requests handed to handle_brokerage in SpecTele: a call with an inline
\* callback and a telemetry listener, a listen with two telemetry listeners,
\* a listen with a listener whose rule has an event handler, and a listen
\* with an inline callback whose rule has an event decorator
TeleRequests ==
    {WithListeners(WithCallback(BrokerRequest("s1", "r-s1", 100, "dev.id", "call", "objs")),
                   {"t1"}),
     WithListeners(BrokerRequest("s1", "r-s1", 101, "dev.onFoo", "listen", "objs"),
                   Listeners),
     WithListeners(BrokerRequest("s2", "r-s2", 102, "dev.onHandled", "listen", "objs"),
                   {"t1"}),
     WithCallback(BrokerRequest("s2", "r-s2", 103, "dev.onDecorated", "listen", "objs"))}

\* the forwarder's delivery targets: requests with inline callbacks and
\* telemetry listeners are registered, the driver pushes responses and
\* events, the forwarder delivers them
NextTele ==
    \/ \E r \in TeleRequests : HandleBrokerage(r)
    \/ \E o \in AckOutputs : DriverOutput(o)
    \/ \E o \in emitted : ForwarderRecv(o)

SpecTele == Init /\ [][NextTele]_vars

(***************************************************************************)
(* ThunderBroker::subscribe called directly, as the unit test does, from   *)
(* the empty subscription map on.                                          *)
(***************************************************************************)
MaxSubscribeCalls == 3

\* the requests subscribe is called with: listens and requests that are no
\* listen, of two sessions, on methods that differ or differ in case only;
\* the k-th call carries call_id k
SubscribeRequests(k) ==
    {BrokerRequest(sn, "r-" \o sn, k, mt, kd, "objs") :
        sn \in Sessions, mt \in {"dev.onFoo", "DEV.ONFOO", "dev.onBar"},
        kd \in {"listen", "unlisten", "call"}}

\* subscribe(&request)
SubscribeCall(request) ==
    /\ Len(subscribe_calls) < MaxSubscribeCalls
    /\ sub_map' = Subscribe(sub_map, request).map
    /\ subscribe_calls' = Append(subscribe_calls, request)
    /\ UNCHANGED <<pureVars, sessVars, routeVars, fwdVars, idVars, request_map, spawned, chan, cleanq, status,
                   pending, wire, emitted, answered, driver, compVars, reconVars,
                   n_reports, n_cleanups, gateHist, drained>>

NextSubscribe == \E r \in SubscribeRequests(Len(subscribe_calls) + 1) : SubscribeCall(r)

SpecSubscribe == Init /\ [][NextSubscribe]_vars

(***************************************************************************)
(* EndpointBroker::apply_request_rule called on its own, on a params_json  *)
(* given as what it parses to.                                             *)
(***************************************************************************)
MaxParams == 3

\* the JSON values an element of the array can be
JsonValues == {"null", "1", "s", "obj"}

\* params_json: a text that is no JSON array, or an array of up to MaxParams
\* elements
ParamsJsons ==
    {[array |-> FALSE, elems |-> <<>>]}
    \cup {[array |-> TRUE, elems |-> e] :
            e \in UNION {[1..n -> JsonValues] : n \in 0..MaxParams}}

\* apply_request_rule for a rule with no request filter: Ok(last) where last
\* is popped from the parsed array when params.len() > 1 and is Value::Null
\* otherwise; Err(ParseError) when params_json is no array
ApplyRequestRuleJson(params_json) ==
    IF params_json.array
    THEN [ok |-> TRUE,
          body |-> IF Len(params_json.elems) > 1
                   THEN params_json.elems[Len(params_json.elems)]
                   ELSE "null"]
    ELSE [ok |-> FALSE, body |-> "ParseError"]

\* apply_request_rule(&rpc_request)
ApplyRequestRuleCall ==
    /\ ret = None
    /\ ret' = Some(ApplyRequestRuleJson(arg))
    /\ UNCHANGED <<arg, sessVars, subscribe_calls, routeVars, fwdVars, idVars, request_map, spawned,
                   chan, cleanq, sub_map, status, pending, wire, emitted, answered,
                   driver, compVars, reconVars, n_reports, n_cleanups, gateHist, drained>>

InitParams ==
    /\ InitBroker /\ endpoint_map = {"thunder"} /\ http_json_rpc = TRUE
    /\ arg \in ParamsJsons /\ ret = None

NextParams == ApplyRequestRuleCall

SpecParams == InitParams /\ [][NextParams]_vars

(***************************************************************************)
(* apply_response called on its own.                                       *)
(***************************************************************************)
\* the responses apply_response is called on: every combination of a result
\* and an error that are absent or present, with and without an id
FilterResponses ==
    {BrokerOutput(i, r, e, None, None) :
        i \in {None, Some(1)},
        r \in {None, Some("null"), Some("ok"), Some("obj")},
        e \in {None, Some("e"), Some("null")}}

\* apply_response(filter, method, &mut response)
ApplyResponseCall ==
    /\ ret = None
    /\ ret' = Some(ApplyResponse(arg.response, arg.jq))
    /\ UNCHANGED <<arg, sessVars, subscribe_calls, routeVars, fwdVars, idVars, request_map, spawned,
                   chan, cleanq, sub_map, status, pending, wire, emitted, answered,
                   driver, compVars, reconVars, n_reports, n_cleanups, gateHist, drained>>

InitResp ==
    /\ InitBroker /\ endpoint_map = {"thunder"} /\ http_json_rpc = TRUE
    /\ arg \in {[response |-> r, jq |-> q] : r \in FilterResponses, q \in JqResults}
    /\ ret = None

NextResp == ApplyResponseCall

SpecResp == InitResp /\ [][NextResp]_vars

(***************************************************************************)
(* Routing: handle_brokerage with every branch, over an endpoint map that  *)
(* may or may not hold a sender for "thunder" and for "http".  The driver  *)
(* variables (chan, driver) are those of the driver registered under       *)
(* "thunder"; http_chan and http_driver those of the one under "http".     *)
(***************************************************************************)
MaxRouteReq == 2

\* EndpointBrokerState::get_sender
GetSender(map, key) == IF key \in map THEN Some(key) ELSE None

\* the requests clients hand to handle_brokerage in SpecRoute
RouteRequests ==
    {BrokerRequest("s1", "r-s1", 100, "dev.id", "call", "objs"),
     BrokerRequest("s1", "r-s1", 101, "dev.onFoo", "listen", "objs"),
     BrokerRequest("s1", "r-s1", 102, "dev.onFoo", "unlisten", "objs"),
     BrokerRequest("s1", "r-s1", 103, "http.get", "call", "objs"),
     BrokerRequest("s1", "r-s1", 104, "http.onEvt", "listen", "objs"),
     BrokerRequest("s1", "r-s1", 105, "http.onEvt", "unlisten", "objs"),
     BrokerRequest("s1", "r-s1", 106, "http.bad", "call", "objs"),
     BrokerRequest("s1", "r-s1", 107, "static.m", "call", "objs"),
     BrokerRequest("s1", "r-s1", 108, "static.e", "call", "objs"),
     BrokerRequest("s1", "r-s1", 109, "prov.m", "call", "objs"),
     BrokerRequest("s1", "r-s1", 110, "unknown.m", "call", "objs")}

\* ProviderBrokerState::check_provider_request, as handle_provided_request
\* matches it
ProviderResults == {"Registered", "Session", "NotAvailable", "None"}

\* handle_brokerage looking every sender up under "thunder"
BrokerSenderOfDefault(map, rule) == GetSender(map, "thunder")

\* the sender handle_brokerage picks before it branches: the one of the
\* rule's endpoint, else (unless the rule is static) the one of "thunder"
BrokerSenderOf(map, rule) ==
    IF IsSome(rule.endpoint) THEN GetSender(map, rule.endpoint[1])
    ELSE IF ~IsStatic(rule.alias) THEN GetSender(map, "thunder")
    ELSE None

\* handle_brokerage testing for a sender before it tests for a static rule
BrokerageBranchSenderFirst(map, method) ==
    LET rule_o == GetRule(method)
    IN  IF ~IsSome(rule_o) THEN "no_rule"
        ELSE IF IsProvided(rule_o[1].alias) THEN "provided"
        ELSE IF ~IsSome(BrokerSenderOf(map, rule_o[1])) THEN "no_sender"
        ELSE IF IsStatic(rule_o[1].alias) THEN "static"
        ELSE "broker"

\* the branch handle_brokerage takes for a request
BrokerageBranch(map, method) ==
    LET rule_o == GetRule(method)
    IN  IF ~IsSome(rule_o) THEN "no_rule"
        ELSE IF IsStatic(rule_o[1].alias) THEN "static"
        ELSE IF IsProvided(rule_o[1].alias) THEN "provided"
        ELSE IF IsSome(BrokerSenderOf(map, rule_o[1])) THEN "broker"
        ELSE "no_sender"

\* the output handle_static_request and handle_provided_request push
StaticOutput(id) == BrokerOutput(Some(id), Some(""), None, None, None)
ProvidedOutputs(id, pr) ==
    CASE pr = "Registered" -> {BrokerOutput(Some(id), Some("null"), None, None, None)}
      [] pr = "Session" -> {}
      [] OTHER -> {BrokerOutput(Some(id), None, Some("CapabilityNotAvailable"), None, None)}

\* the extension message a request may come with
ExtnMessages == {None, Some("extn")}

\* handle_brokerage calling update_request before it chooses its branch
HandleBrokerageAllEager(rpc_request, pr, extn_message) ==
    /\ ATOMIC_ID < MaxRouteReq
    /\ LET branch == BrokerageBranch(endpoint_map, rpc_request.method)
           handled == branch \in {"static", "provided", "broker"}
           id == ATOMIC_ID + 1
           out == CASE branch = "static" -> {StaticOutput(id)}
                    [] branch = "provided" -> ProvidedOutputs(id, pr)
                    [] OTHER -> {}
       IN  /\ ATOMIC_ID' = id
           /\ request_map' = MapInsert(request_map, id, rpc_request)
           /\ spawned' = IF branch = "broker"
                         THEN spawned \cup {[rpc_request EXCEPT !.call_id = id]}
                         ELSE spawned
           /\ extension_request_map' =
                 IF branch # "provided" /\ IsSome(extn_message)
                 THEN extension_request_map \cup {id}
                 ELSE extension_request_map
           /\ emitted' = emitted \cup out
           /\ pushed' = pushed \cup out
           /\ handled_log' = handled_log \cup
                 {[method |-> rpc_request.method, kind |-> rpc_request.kind,
                   id |-> IF handled THEN id ELSE 0, handled |-> handled]}
    /\ UNCHANGED <<fwdVars, id_pc, id_local, returned, chan, cleanq, sub_map, status,
                   pending, wire, answered, driver, compVars, reconVars,
                   n_reports, n_cleanups, gateHist, drained,
                   endpoint_map, http_chan, http_driver, routed, send_failed,
                   http_json_rpc, http_replies, subscribe_calls, sessVars, pureVars>>

\* handle_brokerage: its return value is recorded in handled_log; the static
\* and the brokered branch pass the extension message on to update_request,
\* which stores it under the new id, and the provided branch passes None
HandleBrokerageAll(rpc_request, pr, extn_message) ==
    /\ ATOMIC_ID < MaxRouteReq
    /\ LET branch == BrokerageBranch(endpoint_map, rpc_request.method)
           handled == branch \in {"static", "provided", "broker"}
           id == ATOMIC_ID + 1
           out == CASE branch = "static" -> {StaticOutput(id)}
                    [] branch = "provided" -> ProvidedOutputs(id, pr)
                    [] OTHER -> {}
       IN  /\ ATOMIC_ID' = IF handled THEN id ELSE ATOMIC_ID
           /\ request_map' = IF handled THEN MapInsert(request_map, id, rpc_request)
                             ELSE request_map
           /\ spawned' = IF branch = "broker"
                         THEN spawned \cup {[rpc_request EXCEPT !.call_id = id]}
                         ELSE spawned
           /\ extension_request_map' =
                 IF branch \in {"static", "broker"} /\ IsSome(extn_message)
                 THEN extension_request_map \cup {id}
                 ELSE extension_request_map
           /\ emitted' = emitted \cup out
           /\ pushed' = pushed \cup out
           /\ handled_log' = handled_log \cup
                 {[method |-> rpc_request.method, kind |-> rpc_request.kind,
                   id |-> IF handled THEN id ELSE 0, handled |-> handled]}
    /\ UNCHANGED <<fwdVars, id_pc, id_local, returned, chan, cleanq, sub_map, status,
                   pending, wire, answered, driver, compVars, reconVars,
                   n_reports, n_cleanups, gateHist, drained,
                   endpoint_map, http_chan, http_driver, routed, send_failed,
                   http_json_rpc, http_replies, subscribe_calls, sessVars, pureVars>>

\* BrokerSender::send to the driver under `key`: Err(SendFailure) once the
\* driver's receiver is gone
SenderClosed(key) ==
    IF key = "thunder" THEN driver \in {"exited", "panicked"}
    ELSE http_driver \in {"exited", "panicked"}
SenderHasRoom(key) ==
    IF key = "thunder" THEN Len(chan) < ChanCap ELSE Len(http_chan) < ChanCap

\* the task handle_brokerage spawned for a brokered request: an unlisten is
\* sent to the sender of "thunder" if there is one (acknowledged when the
\* send succeeds, send_error when it fails) and dropped if there is none;
\* any other request is sent to the sender picked for its rule
SpawnedSendRoute(request) ==
    /\ request \in spawned
    /\ spawned' = spawned \ {request}
    /\ LET rule == RuleOf(request.method)
           own == IF IsSome(rule.endpoint) THEN rule.endpoint[1] ELSE "thunder"
           target == IF IsUnlisten(request) THEN GetSender(endpoint_map, "thunder")
                     ELSE Some(own)
       IN  IF ~IsSome(target)
           THEN UNCHANGED <<chan, http_chan, emitted, pushed, routed, send_failed>>
           ELSE IF SenderClosed(target[1])
           THEN /\ emitted' = emitted \cup {SendError(request, "SendFailure")}
                /\ pushed' = pushed \cup {SendError(request, "SendFailure")}
                /\ send_failed' = send_failed \cup {request.call_id}
                /\ UNCHANGED <<chan, http_chan, routed>>
           ELSE /\ SenderHasRoom(target[1])
                /\ chan' = IF target[1] = "thunder" THEN Append(chan, request) ELSE chan
                /\ http_chan' = IF target[1] = "http" THEN Append(http_chan, request)
                                ELSE http_chan
                /\ routed' = routed \cup {[id |-> request.call_id, key |-> target[1]]}
                /\ emitted' = IF IsUnlisten(request)
                              THEN emitted \cup {LocalAck(request)} ELSE emitted
                /\ pushed' = IF IsUnlisten(request)
                             THEN pushed \cup {LocalAck(request)} ELSE pushed
                /\ send_failed' = send_failed
    /\ UNCHANGED <<fwdVars, idVars, request_map, cleanq, sub_map, status, pending, wire,
                   answered, driver, compVars, reconVars, n_reports, n_cleanups,
                   gateHist, drained, endpoint_map, http_driver, handled_log,
                   http_json_rpc, http_replies, extension_request_map,
                   subscribe_calls, sessVars, pureVars>>

\* the alias appended to the endpoint's url parses as a Uri
UriParses(alias) == alias # <<"bad uri">>

\* the replies of the HTTP backend: a status that is 2xx or not, and a body
\* that is JSON ("ok") or not
HttpReplies == {[success |-> su, body |-> b] : su \in BOOLEAN, b \in {"ok", "not json"}}

\* serde_json::from_slice on the body succeeds
BodyParses(body) == body # "not json"

\* BrokerOutputForwarder::handle_non_jsonrpc_response: the parsed body is the
\* result, the id is the request's call_id, and the method of a subscription
\* is "{call_id}.{method}"; nothing is pushed for a body that does not parse
HandleNonJsonrpcResponse(body, request) ==
    IF ~BodyParses(body) THEN {}
    ELSE {BrokerOutput(Some(request.call_id), Some(body), None,
                       IF IsSubscription(request)
                       THEN Some(<<ToString(request.call_id), request.method>>)
                       ELSE None,
                       None)}

\* EndpointBroker::handle_jsonrpc_response (the default): the body decoded as
\* a JSON-RPC response (of a backend that answers the request's id with the
\* result) is pushed as it is; nothing is pushed for a body that does not decode
HandleJsonrpcResponseDefault(body, request) ==
    IF ~BodyParses(body) THEN {}
    ELSE {BrokerOutput(Some(request.call_id), Some(body), None, None, None)}

\* HttpBroker: one turn of `while let Some(request) = tr.recv()`; the Uri of
\* the request is unwrapped (the task panics on an alias that is no Uri); a
\* reply that is no success is logged, and the body of every reply, when it
\* parses, is pushed as an output
HttpRecv ==
    /\ http_driver = "running"
    /\ http_chan # <<>>
    /\ LET request == Head(http_chan)
       IN  /\ http_chan' = Tail(http_chan)
           /\ IF ~UpdateRequest(request).ok
              THEN UNCHANGED <<http_driver, emitted, http_replies>>
              ELSE IF ~UriParses(RuleOf(request.method).alias)
              THEN /\ http_driver' = "panicked"
                   /\ UNCHANGED <<emitted, http_replies>>
              ELSE /\ http_driver' = http_driver
                   \* client.request(..) is Err, or Ok with a reply
                   /\ \/ UNCHANGED <<emitted, http_replies>>
                      \/ \E reply \in HttpReplies :
                            /\ http_replies' = http_replies \cup
                                  {[id |-> request.call_id, success |-> reply.success,
                                    body |-> reply.body]}
                            /\ emitted' = emitted \cup
                                  (IF http_json_rpc
                                   THEN HandleJsonrpcResponseDefault(reply.body, request)
                                   ELSE HandleNonJsonrpcResponse(reply.body, request))
    /\ UNCHANGED <<fwdVars, idVars, request_map, spawned, chan, cleanq, sub_map, status,
                   pending, wire, answered, driver, compVars, reconVars, n_reports,
                   n_cleanups, gateHist, drained, endpoint_map, handled_log, routed,
                   pushed, send_failed, http_json_rpc, extension_request_map,
                   subscribe_calls, sessVars, pureVars>>

\* the receiver of the driver under "thunder" is dropped when its socket
\* closes and the driver task ends
ThunderReceiverDropped == "thunder" \in endpoint_map /\ DriverDisconnect

NextRoute ==
    \/ \E r \in RouteRequests, pr \in ProviderResults : HandleBrokerageAll(r, pr, None)
    \/ \E r \in spawned : SpawnedSendRoute(r)
    \/ HttpRecv
    \/ ThunderReceiverDropped
    \/ \E o \in emitted : ForwarderRecv(o)

SpecRoute == InitRoute /\ [][NextRoute]_vars

\* handle_brokerage called with and without an extension message, and the
\* tasks it spawns
NextBrokerage ==
    \/ \E r \in RouteRequests, pr \in ProviderResults, x \in ExtnMessages :
          HandleBrokerageAll(r, pr, x)
    \/ \E r \in spawned : SpawnedSendRoute(r)

SpecBrokerage == InitRoute /\ [][NextBrokerage]_vars

(***************************************************************************)
(* Properties.                                                             *)
(***************************************************************************)
(* C1: under any interleaving of concurrent callers of get_next_id, no two *)
(* calls return the same id, and every returned id is strictly greater     *)
(* than every id returned by a call that completed earlier.                *)
C1_IdsStrictlyIncreasing ==
    \A i, j \in DOMAIN returned : i < j => returned[i] < returned[j]

(***************************************************************************)
(* Where an accepted request can be: answered, or still on its way.        *)
(***************************************************************************)
\* an output carrying the id was pushed to the forwarder
Answered(id) == \E o \in emitted : o.id = Some(id)

\* the request is in a spawned send task, in the driver's channel, on a
\* pending list, or on the socket waiting for the backend's response
InFlight(id) ==
    \/ \E r \in spawned : r.call_id = id
    \/ \E i \in DOMAIN chan : chan[i].call_id = id
    \/ \E cs \in Callsigns : \E i \in DOMAIN pending[cs] : pending[cs][i].call_id = id
    \/ \E i \in DOMAIN wire : i \notin answered /\ IsAnswerable(wire[i]) /\ wire[i].id = id

(* C2: every request handle_brokerage accepted is eventually answered with *)
(* a result or an error carrying its call_id, whatever plugin state it met *)
(* when it was dequeued.  A request can only be answered while it is on    *)
(* its way (an output with its id comes from the response to its frame or  *)
(* from send_error), so the claim needs that no accepted request is lost:  *)
(* while the driver runs, each is answered or still on its way.            *)
C2_NoAcceptedRequestLost ==
    driver = "running" =>
        \A id \in DOMAIN request_map : Answered(id) \/ InFlight(id)

\* the number of frames of kind t with the given id on the socket
FrameCount(t, id) == Cardinality({i \in DOMAIN wire : wire[i].t = t /\ wire[i].id = id})

(* C4: in every reachable state of the plugin-aware driver the subscription *)
(* map holds at most one entry per (session, method) pair: the entries     *)
(* under a session are that session's, and no two of them have the same    *)
(* method (compared as subscribe compares them, ignoring ASCII case).      *)
C4_OneEntryPerSessionMethod ==
    \A s \in DOMAIN sub_map :
        \A i, j \in DOMAIN sub_map[s] :
            /\ sub_map[s][i].session = s
            /\ i # j => ~EqIgnoreAsciiCase(sub_map[s][i].method, sub_map[s][j].method)

\* a session holds two subscriptions and a replace has happened
C4_Witness ==
    /\ \E s \in DOMAIN sub_map : Len(sub_map[s]) = 2
    /\ \E i \in DOMAIN wire : wire[i].t = "unregister"

\* the step in which the driver handles the listen at the head of its channel
\* while the listen's plugin is Activated and the subscription map holds an
\* entry for the listen's session and method
SecondListenStep ==
    /\ driver = "running"
    /\ chan # <<>>
    /\ chan' = Tail(chan)
    /\ IsListening(Head(chan))
    /\ LET cs == GetCallsignAndMethodFromAlias(RuleOf(Head(chan).method).alias).callsign
       IN  cs \in DOMAIN status /\ status[cs] = "Activated"
    /\ Head(chan).session \in DOMAIN sub_map
    /\ Position(sub_map[Head(chan).session], Head(chan).method) > 0

(* C5: a second listen for a (session, method) that the subscription map   *)
(* already holds leaves exactly one entry for the pair, the second request, *)
(* and writes exactly one unregister frame with the first listen's call_id  *)
(* followed by one register frame with the new call_id; no call_id is ever  *)
(* unregistered twice.                                                      *)
C5_SecondListenReplaces ==
    /\ [][SecondListenStep =>
            LET request == Head(chan)
                s == request.session
                first == sub_map[s][Position(sub_map[s], request.method)]
                cm == GetCallsignAndMethodFromAlias(RuleOf(request.method).alias)
            IN  /\ wire' = wire \o <<UnregisterFrame(first.call_id, cm.callsign, cm.method[1]),
                                     RegisterFrame(request.call_id, cm.callsign, cm.method[1])>>
                /\ s \in DOMAIN sub_map'
                /\ {i \in DOMAIN sub_map'[s] :
                       EqIgnoreAsciiCase(sub_map'[s][i].method, request.method)}
                   = {Position(sub_map'[s], request.method)}
                /\ sub_map'[s][Position(sub_map'[s], request.method)] = request
                /\ first.call_id # request.call_id]_vars
    /\ [](\A id \in 1..MaxReq : FrameCount("unregister", id) <= 1)

\* a second listen has replaced the first (id 1 unregistered, then the new id
\* registered) and the first id's replacement is the session's only entry
C5_Witness ==
    \E i \in DOMAIN wire :
        /\ i + 1 \in DOMAIN wire
        /\ wire[i].t = "unregister"
        /\ wire[i + 1].t = "register"
        /\ wire[i + 1].id # wire[i].id
        /\ \E s \in DOMAIN sub_map :
              /\ Len(sub_map[s]) = 1
              /\ sub_map[s][1].call_id = wire[i + 1].id

\* every cleanup request was handled and the unlistens it synthesized were
\* handled by the request branch
CleanupProcessed ==
    /\ driver = "running"
    /\ cleanq = <<>>
    /\ \A d \in drained :
          /\ ~\E i \in DOMAIN chan : IsUnlisten(chan[i]) /\ chan[i].call_id = d.call_id
          /\ ~\E cs \in Callsigns : \E i \in DOMAIN pending[cs] :
                pending[cs][i].call_id = d.call_id

(* C6: after cleanup_for_session(S) has been fully processed, none of the  *)
(* subscriptions S held is in the subscription map and the driver has      *)
(* written exactly one unregister frame for each of them.                  *)
C6_CleanupComplete ==
    CleanupProcessed =>
        \A d \in drained :
            /\ d.session \in DOMAIN sub_map =>
                  \A i \in DOMAIN sub_map[d.session] :
                      sub_map[d.session][i].call_id # d.call_id
            /\ FrameCount("unregister", d.call_id) = 1

\* the position of a call_id in the log of written requests, 0 when absent
SentAt(id) ==
    IF \E i \in DOMAIN sent_log : sent_log[i] = id
    THEN CHOOSE i \in DOMAIN sent_log : sent_log[i] = id
    ELSE 0

(* C7: the requests dequeued while their callsign was absent from the      *)
(* plugin-status table are written, once the callsign is Activated, in the *)
(* order in which they arrived.                                            *)
C7_PendingWrittenInArrivalOrder ==
    \A cs \in Callsigns :
        \A i, j \in DOMAIN gated[cs] :
            (i < j /\ SentAt(gated[cs][i]) > 0 /\ SentAt(gated[cs][j]) > 0)
                => SentAt(gated[cs][i]) < SentAt(gated[cs][j])

(* C8: after a socket drop, and once the reconnect thread has handled the  *)
(* driver's reconnect request, a socket has been re-established and a      *)
(* register frame was written to it for every entry the subscription map   *)
(* held before the drop, with the entry's call_id.                         *)
C8_ReconnectReplay ==
    (/\ driver = "exited" /\ reconnect_q = <<>> /\ supervisor = "stopped"
     /\ \E s \in DOMAIN pre_drop : pre_drop[s] # <<>>) =>
        /\ sockets > 1
        /\ \A s \in DOMAIN pre_drop : \A i \in DOMAIN pre_drop[s] :
              FrameCount("register", pre_drop[s][i].call_id) >= 1

\* the step in which the driver reads the backend's response to frame i
ReadStep(i) ==
    /\ driver = "running"
    /\ i \in DOMAIN wire
    /\ i \notin answered
    /\ answered' = answered \cup {i}

\* the output a ReadStep pushes for the id: the one with a result set
OutputOf(id, params) == BrokerOutput(Some(id), Some("ok"), None, None, params)

\* the step in which purge timer task t takes a turn of its loop
SweepStep(t) ==
    /\ sweepers[t].pc = "loop"
    /\ sweepers[t].next <= now
    /\ t \notin DOMAIN sweepers' \/ sweepers'[t].next # sweepers[t].next

LookupStep(N) ==
    /\ Len(lookups') = Len(lookups) + 1
    /\ lookups'[Len(lookups')].id = N

(* C3: for a non-subscription request registered under id N, the first     *)
(* get_request(N) returns the request and removes it from the registry,    *)
(* and every later get_request(N) returns not-found.                       *)
C3_SingleShotRemoval ==
    /\ [][\A N \in DOMAIN request_map :
            (LookupStep(N) /\ ~IsSubscription(request_map[N])) =>
                /\ lookups'[Len(lookups')].found
                /\ N \notin DOMAIN request_map']_vars
    /\ [](\A i, j \in DOMAIN lookups :
            (/\ i < j
             /\ lookups[i].id = lookups[j].id
             /\ lookups[i].found
             /\ ~lookups[i].subscription) => ~lookups[j].found)

\* a non-subscription request was looked up twice: found, then not found
C3_Witness ==
    \E i, j \in DOMAIN lookups :
        /\ i < j
        /\ lookups[i].id = lookups[j].id
        /\ lookups[i].found
        /\ ~lookups[i].subscription
        /\ ~lookups[j].found

(* C9: an output whose method's first token parses as the id N of a         *)
(* registered listen is forwarded with that client's request_id and        *)
(* call_id and with the client-facing event method (the client's method    *)
(* first), and every subscription the forwarder looked up is still in the  *)
(* registry.                                                               *)
C9_EventRouting ==
    /\ \A m \in delivered :
          LET e == GetEvent(m.output)
          IN  (IsSome(e) /\ e[1] \in DOMAIN request_map
                         /\ IsListening(request_map[e[1]])) =>
                  /\ m.session = request_map[e[1]].session
                  /\ m.request_id = request_map[e[1]].request_id
                  /\ m.response.id = Some(request_map[e[1]].call_id)
                  /\ IsSome(m.response.method)
                  /\ m.response.method[1][1] = request_map[e[1]].method
    /\ \A i \in DOMAIN lookups :
          (lookups[i].found /\ lookups[i].subscription)
              => lookups[i].id \in DOMAIN request_map

\* the messages delivered for non-event outputs that carry the id
AcksDelivered(id) ==
    {m \in delivered : ~IsSome(GetEvent(m.output)) /\ m.output.id = Some(id)}

(* C11, as the claim states it: the backend's acknowledgement of a listen   *)
(* (a non-event response with the listen's id, its result null or a value) *)
(* is delivered with the result {listening: true, event: method} and marks *)
(* the registry entry processed, and no later non-event response for the   *)
(* id is delivered.                                                        *)
C11_ListenAckDeliveredOnce ==
    \A id \in DOMAIN request_map :
        IsListening(request_map[id]) =>
            /\ \A m \in AcksDelivered(id) :
                  /\ m.response.result = Some("listening")
                  /\ request_map[id].subscription_processed
            /\ Cardinality(AcksDelivered(id)) <= 1

(* C11, amended: an acknowledgement of a listen whose result is present    *)
(* (decoded to Some) is delivered with the result {listening: true, event: *)
(* method} and marks the registry entry processed, and no later            *)
(* result-bearing non-event response for the id is delivered; a response   *)
(* whose result is null or missing (decoded to None) and that has no error *)
(* is delivered with a null result.                                        *)
C11_AckWithResultDeliveredOnce ==
    \A id \in DOMAIN request_map :
        IsListening(request_map[id]) =>
            /\ \A m \in AcksDelivered(id) :
                  IF IsSome(m.output.result)
                  THEN /\ m.response.result = Some("listening")
                       /\ request_map[id].subscription_processed
                  ELSE m.response.result = Some("null")
            /\ Cardinality({m \in AcksDelivered(id) : IsSome(m.output.result)}) <= 1

\* a listen's acknowledgement with a result was delivered, and a later
\* response for the same id was looked up and not delivered (a response
\* without a result, or an event, would have been delivered)
C11_Witness ==
    \E m \in delivered : \E i \in DOMAIN lookups :
        /\ IsSome(m.output.result) /\ ~IsSome(GetEvent(m.output))
        /\ m.response.result = Some("listening")
        /\ i > m.at
        /\ lookups[i].found
        /\ Some(lookups[i].id) = m.output.id
        /\ ~\E m2 \in delivered : m2.at = i

(***************************************************************************)
(* Routing claims (SpecRoute).                                             *)
(***************************************************************************)
\* the task handle_brokerage spawned for the request registered under `id`
\* has run
TaskRan(id) == \A r \in spawned : r.call_id # id

\* C12: for every unlisten accepted by handle_brokerage, once its task has
\* run, a local success acknowledgement (an output with the request's
\* broker-assigned id and no error) has been pushed to the forwarder,
\* whatever the outcome of the send and whether or not "thunder" has a sender
C12_UnlistenAlwaysAcked ==
    \A h \in handled_log :
        (h.handled /\ h.kind = "unlisten" /\ TaskRan(h.id))
            => \E o \in pushed : o.id = Some(h.id) /\ ~IsSome(o.error)

\* C13: handle_brokerage returns false exactly when no rule matches the
\* request, or the matched rule is neither static nor provided and no sender
\* is registered under its endpoint key ("thunder" when it names none); in
\* every other case it returns true
C13_HandledReturnValue ==
    \A h \in handled_log :
        LET rule_o == GetRule(h.method)
            key == IF IsSome(rule_o[1].endpoint) THEN rule_o[1].endpoint[1] ELSE "thunder"
            refused == \/ ~IsSome(rule_o)
                       \/ /\ rule_o[1].alias # <<"static">>
                          /\ rule_o[1].alias \notin {<<"provided">>, <<"Provided">>}
                          /\ key \notin endpoint_map
        IN  h.handled = ~refused

\* a brokered request refused for want of a sender, a request with no rule
\* refused, and a static rule accepted although its endpoint has no sender
C13_Witness ==
    /\ "http" \notin endpoint_map
    /\ \E h \in handled_log : ~h.handled /\ h.method = "http.get"
    /\ \E h \in handled_log : h.handled /\ h.method = "static.e"

\* C14: every request accepted by handle_brokerage whose rule is neither
\* static nor provided is, once its task has run with the driver's channel
\* open, sent to exactly one driver: the one under the rule's endpoint key, or
\* the one under "thunder" when the rule names none; calls, listens and
\* unlistens alike
C14_SentToRuleEndpoint ==
    \A h \in handled_log :
        LET rule == RuleOf(h.method)
            key == IF IsSome(rule.endpoint) THEN rule.endpoint[1] ELSE "thunder"
        IN  (/\ h.handled
             /\ rule.alias # <<"static">>
             /\ rule.alias \notin {<<"provided">>, <<"Provided">>}
             /\ TaskRan(h.id)
             /\ h.id \notin send_failed)
                => {r.key : r \in {x \in routed : x.id = h.id}} = {key}

\* the outputs pushed for the request registered under `id`
PushedFor(id) == {o \in pushed : o.id = Some(id)}

C16_EventsInReadOrder ==
    \A m1, m2 \in delivered :
        (/\ IsSome(GetEvent(m1.output)) /\ IsSome(GetEvent(m2.output))
         /\ GetEvent(m1.output) = GetEvent(m2.output)
         /\ ReadSeq(m1.output) < ReadSeq(m2.output))
            => m1.at < m2.at

\* C17: the requests accepted for the Thunder driver are written to its
\* socket in the order in which handle_brokerage was called (the order of
\* their broker-assigned ids), so that the register frame of a listen precedes
\* the frame of a call submitted after it
C17_WrittenInCallOrder ==
    \A i, j \in DOMAIN sent_log : i < j => sent_log[i] < sent_log[j]

(***************************************************************************)
(* The registry entries of subscriptions.                                  *)
(***************************************************************************)
\* C18: a lookup (get_request) of the id of an unlisten request removes the
\* request from the registry; only a listen survives a lookup
C18_UnlistenRemovedByLookup ==
    [][\A id \in DOMAIN request_map :
          (/\ request_map[id].kind # "listen"
           /\ Len(lookups') = Len(lookups) + 1
           /\ lookups'[Len(lookups')].id = id)
              => id \notin DOMAIN request_map']_vars

\* C19: once the unlisten matching a listen (same session and method) has
\* completed, i.e. its answer has been delivered to the client, the entry of
\* the listen is no longer in the registry
C19_ListenRemovedAfterUnlisten ==
    \A u \in DOMAIN request_map :
        (/\ request_map[u].kind = "unlisten"
         /\ \E m \in delivered : m.output.id = Some(u))
            => ~\E l \in DOMAIN request_map :
                  /\ l < u
                  /\ request_map[l].kind = "listen"
                  /\ request_map[l].session = request_map[u].session
                  /\ EqIgnoreAsciiCase(request_map[l].method, request_map[u].method)

\* the part of C19 that holds: a lookup never removes the entry of a listen
C19_ListenSurvivesLookups ==
    [][\A id \in DOMAIN request_map :
          request_map[id].kind = "listen" => id \in DOMAIN request_map']_vars

(***************************************************************************)
(* The post-condition of subscribe (SpecSubscribe).                        *)
(***************************************************************************)
\* the entries the map holds for the (session, method) of a request
EntriesFor(map, request) ==
    IF request.session \in DOMAIN map
    THEN {i \in DOMAIN map[request.session] :
            EqIgnoreAsciiCase(map[request.session][i].method, request.method)}
    ELSE {}

\* C20: after subscribe(req) returns, the map holds exactly one entry for
\* req's (session, method) if req is a listen and none if it is not, whatever
\* the map held before, a map with no list for the session included
C20_SubscribePostCondition ==
    subscribe_calls # <<>> =>
        LET req == subscribe_calls[Len(subscribe_calls)]
        IN  Cardinality(EntriesFor(sub_map, req)) = IF IsListening(req) THEN 1 ELSE 0

\* the part of C20 that holds: at most one entry per (session, method), and
\* exactly one, the request itself, after a listen
C20_ListenHasOneEntry ==
    subscribe_calls # <<>> =>
        LET req == subscribe_calls[Len(subscribe_calls)]
        IN  /\ Cardinality(EntriesFor(sub_map, req)) <= 1
            /\ IsListening(req) =>
                  \E i \in EntriesFor(sub_map, req) : sub_map[req.session][i] = req

(***************************************************************************)
(* Unlistens handled by the Thunder driver (SpecSub).                      *)
(***************************************************************************)
\* the step in which the driver handles the unlisten at the head of its
\* channel while the unlisten's plugin is Activated
UnlistenStep ==
    /\ driver = "running"
    /\ chan # <<>>
    /\ chan' = Tail(chan)
    /\ IsUnlisten(Head(chan))
    /\ LET cs == GetCallsignAndMethodFromAlias(RuleOf(Head(chan).method).alias).callsign
       IN  cs \in DOMAIN status /\ status[cs] = "Activated"

\* C21: an unlisten handled by the Thunder driver removes the entry of its
\* (session, method) from the subscription map; if there was an entry,
\* exactly one unregister frame is written, with the id of the stored entry
\* (and not of the unlisten); if there was none, no frame is written and the
\* map is unchanged
C21_UnlistenUnregistersStoredId ==
    [][UnlistenStep =>
          LET request == Head(chan)
              s == request.session
              held == EntriesFor(sub_map, request)
              cm == GetCallsignAndMethodFromAlias(RuleOf(request.method).alias)
          IN  /\ EntriesFor(sub_map', request) = {}
              /\ IF held # {}
                 THEN \E i \in held :
                         /\ wire' = wire \o <<UnregisterFrame(sub_map[s][i].call_id,
                                                               cm.callsign, cm.method[1])>>
                         /\ held = {i}
                 ELSE wire' = wire /\ sub_map' = sub_map]_vars

\* an unlisten of a client has been handled: the last frame on the socket is
\* the unregister frame of an earlier listen, whose entry is gone, and the
\* unlisten that caused it has its own, later id
C21_Witness ==
    /\ wire # <<>>
    /\ wire[Len(wire)].t = "unregister"
    /\ \A s \in DOMAIN sub_map : \A i \in DOMAIN sub_map[s] :
          sub_map[s][i].call_id # wire[Len(wire)].id
    /\ \E u \in DOMAIN request_map :
          /\ request_map[u].kind = "unlisten"
          /\ u > wire[Len(wire)].id
          /\ TaskRan(u)
          /\ ~\E i \in DOMAIN chan : chan[i].call_id = u

(***************************************************************************)
(* Plugin gating (Spec).                                                   *)
(***************************************************************************)
\* the callsign of the request at the head of the driver's channel
HeadCallsign == GetCallsignAndMethodFromAlias(RuleOf(Head(chan).method).alias).callsign

\* the step in which the driver dequeues a request while the plugin of the
\* request is in state `st`
DequeueStepIn(st) ==
    /\ driver = "running"
    /\ chan # <<>>
    /\ chan' = Tail(chan)
    /\ HeadCallsign \in DOMAIN status
    /\ status[HeadCallsign] = st

\* C22: a request dequeued while its callsign is Activating is added to the
\* callsign's pending list, and no frame is written to the socket
C22_ActivatingRequestPended ==
    [][DequeueStepIn("Activating") =>
          /\ pending' = [pending EXCEPT ![HeadCallsign] = Append(@, Head(chan))]
          /\ wire' = wire]_vars

\* the part of C22 that holds: no frame is written for such a request
C22_ActivatingWritesNothing ==
    [][DequeueStepIn("Activating") => wire' = wire]_vars

\* C23: a request dequeued while its callsign is Missing is not written to
\* the socket and not added to a pending list, and exactly one error output
\* with the request's broker-assigned call_id is emitted to the forwarder
C23_MissingRequestFailed ==
    [][DequeueStepIn("Missing") =>
          LET request == Head(chan)
              new == emitted' \ emitted
          IN  /\ wire' = wire
              /\ pending' = pending
              /\ Cardinality(new) = 1
              /\ \A o \in new :
                    /\ o.id = Some(request.call_id)
                    /\ IsSome(o.error) /\ ~IsSome(o.result)
              /\ \A o \in emitted : o.id # Some(request.call_id)]_vars

\* a request was dequeued while its plugin was Missing: the ServiceError
\* output carries its id, and it is on no pending list and not on the socket
C23_Witness ==
    \E o \in emitted :
        /\ o.error = Some("ServiceError")
        /\ \E id \in DOMAIN request_map :
              /\ o.id = Some(id)
              /\ ~InFlight(id)
              /\ \A i \in DOMAIN wire : wire[i].id # id

(***************************************************************************)
(* The hand-off to the reconnect thread (SpecSub).                         *)
(***************************************************************************)
\* C24: when the driver's task exits on disconnect, the connect request it
\* hands to the reconnect thread has the same endpoint key and a sub_map
\* equal to the driver's whole subscription map at the moment of disconnect
C24_ReconnectCarriesWholeMap ==
    [][(driver = "running" /\ driver' = "exited") =>
          /\ Len(reconnect_q') = Len(reconnect_q) + 1
          /\ reconnect_q'[Len(reconnect_q')].key = connect_req.key
          /\ reconnect_q'[Len(reconnect_q')].sub_map = sub_map]_vars

\* the part of C24 that holds: the key is the same and what is carried is a
\* session's list as the map held it
C24_ReconnectKeepsKey ==
    [][(driver = "running" /\ driver' = "exited") =>
          LET r == reconnect_q'[Len(reconnect_q')]
          IN  /\ r.key = connect_req.key
              /\ \A k \in DOMAIN r.sub_map : k \in DOMAIN sub_map /\ r.sub_map[k] = sub_map[k]]_vars

(***************************************************************************)
(* The body of the outgoing payload (SpecParams).                          *)
(***************************************************************************)
\* C25: the body before the request filter is null when params_json parses
\* to an empty array and is otherwise the last element of the array, whatever
\* the array's length; a params_json that is no array yields a ParseError
C25_BodyIsLastElement ==
    IsSome(ret) =>
        IF arg.array
        THEN /\ ret[1].ok
             /\ ret[1].body = IF Len(arg.elems) = 0 THEN "null"
                               ELSE arg.elems[Len(arg.elems)]
        ELSE ~ret[1].ok /\ ret[1].body = "ParseError"

\* the part of C25 that holds: the claim for every params_json but an array
\* of exactly one element
C25_BodyIsLastElementOfSeveral ==
    (IsSome(ret) /\ ~(arg.array /\ Len(arg.elems) = 1)) =>
        IF arg.array
        THEN /\ ret[1].ok
             /\ ret[1].body = IF Len(arg.elems) = 0 THEN "null"
                               ELSE arg.elems[Len(arg.elems)]
        ELSE ~ret[1].ok /\ ret[1].body = "ParseError"

(***************************************************************************)
(* Response filters (SpecResp).                                            *)
(***************************************************************************)
\* C26: when the response filter evaluates successfully, the response has
\* exactly one of result and error set afterwards: an output that is an
\* object with a top-level error member becomes the error and the result is
\* cleared, any other output becomes the result and the error is cleared,
\* whatever result and error held before
C26_FilterSetsResultOrError ==
    (IsSome(ret) /\ arg.jq.ok) =>
        /\ IsSome(ret[1].result) # IsSome(ret[1].error)
        /\ IF arg.jq.out \in {"obj_error_null", "obj_error_e"}
           THEN /\ ret[1].error = Some(IF arg.jq.out = "obj_error_e" THEN "e" ELSE "null")
                /\ ret[1].result = None
           ELSE /\ ret[1].result = Some(arg.jq.out)
                /\ ret[1].error = None

\* the filter's output held an error member and replaced a response that had
\* a result and no error
C26_Witness ==
    /\ IsSome(ret)
    /\ arg.jq.ok /\ arg.jq.out = "obj_error_e"
    /\ IsSome(arg.response.result) /\ ~IsSome(arg.response.error)
    /\ ret[1].error = Some("e") /\ ~IsSome(ret[1].result)

(***************************************************************************)
(* Filters in the forwarder (SpecFilt).                                    *)
(***************************************************************************)
\* C27: when evaluation of a response filter fails, the response delivered
\* to the client carries an error and no result, whatever result the backend
\* response held before the filter ran
C27_FilterFailureNoResult ==
    \A m \in delivered :
        LET jq == lookups[m.at].jq.response
        IN  (~jq.ok /\ jq.out = "jq error") =>
               /\ IsSome(m.response.error)
               /\ ~IsSome(m.response.result)

\* C27, the part that holds: the delivered response carries the error, next
\* to the result the backend response held
C27_FilterFailureCarriesError ==
    \A m \in delivered :
        LET jq == lookups[m.at].jq.response
        IN  (~jq.ok /\ jq.out = "jq error") =>
               /\ m.response.error = Some("jq error")
               /\ m.response.result = m.output.result

\* the turn of the forwarder that handles an event, with a result, of a
\* request whose rule has a match filter and no event handler
MatchFilterTurn(o) ==
    /\ o \in emitted /\ emitted' = emitted \ {o}
    /\ Len(lookups') = Len(lookups) + 1
    /\ IsSome(GetEvent(o)) /\ IsSome(o.result)
    /\ lookups'[Len(lookups')].found
    /\ LET rule == RuleOf(request_map[lookups'[Len(lookups')].id].method)
       IN  IsSome(rule.filter) /\ ~IsSome(rule.event_handler)

\* C29: an event for a rule that has a match filter and no event handler is
\* dropped exactly when the filter evaluates to false or null; for every
\* other outcome of the filter the event is delivered, and in both cases the
\* forwarder goes on to process the outputs that follow
C29_MatchFilterDropsOrDelivers ==
    [][\A o \in emitted :
          MatchFilterTurn(o) =>
             LET jq == lookups'[Len(lookups')].jq.match
                 dropped == delivered' = delivered
             IN  /\ dropped <=> (jq.ok /\ jq.out \in {"false", "null"})
                 /\ ~dropped => \E m \in delivered' \ delivered : m.output = o
                 /\ forwarder' = "running"]_vars

\* C29, the part that holds: for a filter that fails or yields null or a
\* boolean, the event is dropped exactly on false and null, delivered
\* otherwise, and the forwarder goes on
C29_BooleanMatchFilter ==
    [][\A o \in emitted :
          (MatchFilterTurn(o)
           /\ LET jq == lookups'[Len(lookups')].jq.match
              IN  ~jq.ok \/ jq.out \in {"null", "true", "false"}) =>
             LET jq == lookups'[Len(lookups')].jq.match
                 dropped == delivered' = delivered
             IN  /\ dropped <=> (jq.ok /\ jq.out \in {"false", "null"})
                 /\ ~dropped => \E m \in delivered' \ delivered : m.output = o
                 /\ forwarder' = "running"]_vars

(***************************************************************************)
(* Delivery targets (SpecTele).                                            *)
(***************************************************************************)
\* the request a message answers, by the call_id its response carries
TeleRequestOf(m) == CHOOSE r \in TeleRequests : Some(r.call_id) = m.response.id

\* C30: every output the forwarder delivers to a session or to an inline
\* callback is also sent to every telemetry listener registered on the
\* originating request, and a request that carries an inline callback is
\* delivered to that callback and never to the session transport
C30_ListenersAndCallback ==
    /\ \A m \in delivered \cup callback_sent :
          \A l \in TeleRequestOf(m).telemetry_response_listeners :
             [listener |-> l, msg |-> m] \in tele_sent
    /\ \A m \in delivered : ~TeleRequestOf(m).workflow_callback
    /\ \A m \in callback_sent : TeleRequestOf(m).workflow_callback

\* C30, the part that holds: the same for every output but the events of a
\* rule with an event handler or an event decorator
C30_ListenersAndCallbackNoTask ==
    LET task(m) == LET rule == RuleOf(TeleRequestOf(m).method)
                   IN  /\ IsSome(GetEvent(m.output))
                       /\ IsSome(rule.event_handler) \/ IsSome(rule.event_decorator_method)
    IN  /\ \A m \in delivered \cup callback_sent :
              ~task(m) =>
                 \A l \in TeleRequestOf(m).telemetry_response_listeners :
                    [listener |-> l, msg |-> m] \in tele_sent
        /\ \A m \in delivered : ~task(m) => ~TeleRequestOf(m).workflow_callback
        /\ \A m \in callback_sent : TeleRequestOf(m).workflow_callback

(***************************************************************************)
(* HTTP replies (SpecRoute).                                               *)
(***************************************************************************)
\* C28: for every HTTP backend reply with a non-2xx status, the HTTP driver
\* emits to the response forwarder an error response with the invalid-params
\* code and the request's call_id, and does not forward the reply body as a
\* result
C28_NonSuccessBecomesError ==
    [][\A rp \in http_replies' \ http_replies :
          ~rp.success =>
             /\ \E o \in emitted' \ emitted :
                   /\ o.id = Some(rp.id)
                   /\ o.error = Some("InvalidParams")
                   /\ ~IsSome(o.result)
             /\ \A o \in emitted' \ emitted : o.result # Some(rp.body)]_vars

\* C28, the part that holds: the body of a reply is forwarded under the
\* request's call_id when it parses, whatever the status, and nothing is
\* emitted when it does not
C28_BodyForwardedWhateverStatus ==
    [][\A rp \in http_replies' \ http_replies :
          LET out == emitted' \ emitted
          IN  IF rp.body = "not json" THEN out = {}
              ELSE \A o \in out :
                      o.id = Some(rp.id) /\ o.result = Some(rp.body) /\ ~IsSome(o.error)]_vars

(***************************************************************************)
(* Session cleanup (SpecClean).                                            *)
(***************************************************************************)
\* the driver handles the cleanup request of session s
CleanupStep(s) ==
    /\ driver = "running"
    /\ cleanq # <<>> /\ Head(cleanq) = s
    /\ cleanq' = Tail(cleanq)

\* C31: cleanup_for_session is idempotent: a cleanup leaves the session
\* without an entry in the subscription map, only a listen of the session
\* that the driver handles brings one back, and a cleanup of a session
\* without an entry queues no unlisten, writes no frame and leaves the
\* subscription map and the request registry unchanged
C31_CleanupIdempotent ==
    [][\A s \in Sessions :
          /\ CleanupStep(s) => s \notin DOMAIN sub_map'
          /\ (s \notin DOMAIN sub_map /\ s \in DOMAIN sub_map') =>
                (chan # <<>> /\ chan' = Tail(chan)
                 /\ Head(chan).session = s /\ IsListening(Head(chan)))
          /\ (CleanupStep(s) /\ s \notin DOMAIN sub_map) =>
                /\ wire' = wire /\ chan' = chan /\ pending' = pending
                /\ sub_map' = sub_map /\ request_map' = request_map]_vars

\* a listen was drained by a first cleanup of its session, its unlisten was
\* handled, and a second cleanup of that session was handled with no listen
\* of the session handled since the run began but the drained one
C31_Witness ==
    /\ cleaned = <<"s1", "s1">>
    /\ drained = {[session |-> "s1", call_id |-> 1]}
    /\ ATOMIC_ID = ATOMIC_ID_INIT + 1 /\ spawned = {} /\ chan = <<>>
    /\ sub_map = EmptyMap

(***************************************************************************)
(* Sessions that close with requests in flight (SpecGone).                 *)
(***************************************************************************)
\* the forwarder looks up the request of output o and finds an entry that
\* is no subscription and whose session is gone
LateResponseStep(o) ==
    /\ o \in emitted /\ emitted' = emitted \ {o}
    /\ Len(lookups') = Len(lookups) + 1
    /\ lookups'[Len(lookups')].found
    /\ ~lookups'[Len(lookups')].subscription
    /\ request_map[lookups'[Len(lookups')].id].session \in closed

\* C32: cleanup_for_session(S), the call and the driver's handling of it,
\* does not remove or change any entry of the request registry; when the
\* response of an in-flight non-subscription request arrives after its
\* session is gone, the entry is consumed from the registry and nothing is
\* delivered to any session
C32_InFlightNotCancelled ==
    [][/\ \A s \in Sessions :
             (cleanq' = Append(cleanq, s) \/ CleanupStep(s)) => request_map' = request_map
       /\ \A o \in emitted :
             LateResponseStep(o) =>
                /\ lookups'[Len(lookups')].id \notin DOMAIN request_map'
                /\ delivered' = delivered]_vars

\* a session closed and was cleaned up, the response of one of its calls
\* was looked up afterwards and consumed, and nothing was ever delivered
C32_Witness ==
    /\ closed = {"s1"} /\ cleaned = <<"s1">>
    /\ delivered = {}
    /\ \E i \in DOMAIN lookups :
          /\ lookups[i].found /\ ~lookups[i].subscription
          /\ lookups[i].id \notin DOMAIN request_map
    /\ ATOMIC_ID = ATOMIC_ID_INIT + 1

(***************************************************************************)
(* Eviction of composite records that are never answered (SpecSweep).      *)
(***************************************************************************)
\* a purge timer task is in its loop or on its way into it
SweeperRunning ==
    \E t \in DOMAIN sweepers :
        \/ sweepers[t].pc \in {"checked", "loop"}
        \/ sweepers[t].pc = "spawned" /\ ~purge_started

BrokerageStep(r) ==
    \E h \in handled_log' \ handled_log : h.method = r.method /\ h.kind = r.kind

\* the requests whose rule has the alias "static"
StaticRequests ==
    {r \in RouteRequests :
        IsSome(GetRule(r.method)) /\ GetRule(r.method)[1].alias = <<"static">>}

\* C34: a request matching a rule whose alias is "static" allocates a new
\* id, registers the request under that id, pushes exactly one empty-result
\* output with that id to the forwarder, sends nothing to any driver and
\* makes handle_brokerage return true, whether or not the rule names an
\* endpoint
C34_StaticAnsweredLocally ==
    [][\A r \in StaticRequests :
          BrokerageStep(r) =>
             LET id == ATOMIC_ID'
             IN  /\ id = ATOMIC_ID + 1
                 /\ id \notin DOMAIN request_map
                 /\ DOMAIN request_map' = DOMAIN request_map \cup {id}
                 /\ request_map'[id] = r
                 /\ Cardinality(pushed' \ pushed) = 1
                 /\ emitted' \ emitted = pushed' \ pushed
                 /\ \A o \in pushed' \ pushed :
                       /\ o.id = Some(id)
                       /\ o.result = Some("")
                       /\ o.error = None
                 /\ spawned' = spawned
                 /\ chan' = chan /\ http_chan' = http_chan /\ routed' = routed
                 /\ \E h \in handled_log' \ handled_log :
                       h.method = r.method /\ h.id = id /\ h.handled]_vars

\* a static rule without endpoint and a static rule whose endpoint has no
\* sender were both answered locally, and no task was spawned
C34_Witness ==
    /\ endpoint_map = {}
    /\ \E h1, h2 \in handled_log :
          /\ h1.method = "static.m" /\ h1.handled
          /\ h2.method = "static.e" /\ h2.handled
          /\ {h1.id, h2.id} = DOMAIN request_map
          /\ {o.id : o \in pushed} = {Some(h1.id), Some(h2.id)}
    /\ spawned = {} /\ routed = {} /\ chan = <<>> /\ http_chan = <<>>

\* a call of handle_brokerage is being taken that returns false: only
\* handle_brokerage writes handled_log, and a refusal that repeats an earlier
\* one of the same request changes no variable at all
RefusedStep == \E h \in handled_log' \ handled_log : ~h.handled

\* C37: a call of handle_brokerage that returns false leaves the request
\* registry, the extension-request map and the id counter unchanged and
\* pushes nothing to any driver or to the forwarder
C37_RefusalChangesNothing ==
    [][RefusedStep =>
          /\ request_map' = request_map
          /\ extension_request_map' = extension_request_map
          /\ ATOMIC_ID' = ATOMIC_ID
          /\ spawned' = spawned
          /\ chan' = chan /\ http_chan' = http_chan /\ routed' = routed
          /\ pushed' = pushed /\ emitted' = emitted]_vars

\* a request without rule and a request whose endpoint has no sender were
\* refused, between two accepted requests of which the first came with an
\* extension message
C37_Witness ==
    /\ ATOMIC_ID = ATOMIC_ID_INIT + 2
    /\ extension_request_map = {ATOMIC_ID_INIT + 1}
    /\ \E h \in handled_log : h.method = "unknown.m" /\ ~h.handled
    /\ \E h \in handled_log : h.method = "http.get" /\ ~h.handled
    /\ DOMAIN request_map = {ATOMIC_ID_INIT + 1, ATOMIC_ID_INIT + 2}

(***************************************************************************)
(* Number of purge timer loops (SpecComp).                                 *)
(***************************************************************************)
\* the purge timer tasks that have entered their loop
SweeperLoops == {t \in DOMAIN sweepers : sweepers[t].pc = "loop"}

\* C39: at most one composite-request sweeper loop is running at any time,
\* under every interleaving of the register_composite_request calls and the
\* driver start-up call that each spawn start_purge_composite_request_timer
C39_AtMostOneSweeper == Cardinality(SweeperLoops) <= 1

(***************************************************************************)
(* Lock discipline of the purge timer (SpecLock).                          *)
(***************************************************************************)
\* C35: in every reachable state no broker task holds two locks at once,
\* and no lock is held across a suspension point (here: the acquisition of
\* another lock)
C35_LocksShortLived ==
    \A t \in DOMAIN sweepers :
        /\ Cardinality(LocksHeld(t)) <= 1
        /\ AwaitsLock(t) => LocksHeld(t) = {}

(***************************************************************************)
(* The driver re-queueing unlistens on its own channel (SpecFull).         *)
(***************************************************************************)
\* C36: handling of a cleanup message by the plugin-aware driver always
\* completes: the driver re-queues one unlisten per drained subscription on
\* its own inbound channel and returns to its select loop, for any number of
\* drained subscriptions and any number of requests waiting in the channel;
\* the driver task is the only consumer of that channel, so a send that
\* finds it full never returns
C36_CleanupCompletes == [][cleaned' # cleaned => driver' = "running"]_vars

(***************************************************************************)
(* Rebuild of the plain WebSocket driver (SpecRecon).                      *)
(***************************************************************************)
\* C38: every disconnect of a plain WebSocket driver is eventually followed
\* by a rebuild of its endpoint, whichever other drivers, the Thunder driver
\* included, disconnected before it
C38_WsEventuallyRebuilt == (ws_driver = "exited") ~> (ws_driver = "running")

(***************************************************************************)
(* The driver task and the shape of params_json (SpecShapes).              *)
(***************************************************************************)
\* C40: the plugin-aware driver task never terminates because of a request:
\* for every dequeued request on an Activated callsign, whatever its
\* params_json and whether it is a call, listen or unlisten, the driver
\* writes frames or emits an error output and keeps serving its channels
C40_DriverSurvivesRequests == driver # "panicked"

====
